---- MODULE Spec2Model ----
(***************************************************************************)
(* Model of the Dell Storage Manager client library                        *)
(* (dell_storage_api/*.py, and the older scm_api/*.py revision).           *)
(*                                                                         *)
(* The specifications share the variables below; each one moves only its   *)
(* own group of variables and leaves the others at their initial value:    *)
(*   CollectionSpec  StorageObjectCollection / StorageObjectFolderCollection *)
(*   DecodeSpec      the from_json class methods                           *)
(*   EntitySpec      the remote operations of Volume and VolumeFolder      *)
(*   MappingSpec     map_to_server / unmap against a server that refuses   *)
(*                   to map a mapped volume                                *)
(*   ListingSpec     the listings of StorageCenter                         *)
(*   CreateSpec      new_volume / new_volume_folder of StorageCenter       *)
(*   CliSpec         one run of storage_client.py                          *)
(*   MoveSpec        move_to_folder of the scm_api VolumeFolder            *)
(*   QuerySpec       the lookups and filters of the collections            *)
(*   IterationSpec   iteration over a collection that add() may change     *)
(*   UniqueNameSpec  volume_create / volume_folder_create of the client    *)
(*   SessionSpec     login, storage_centers and logout of DsmSession       *)
(*                                                                         *)
(* Encoding of Python values:                                              *)
(*   None               the string None below (no id or name equals it)    *)
(*   Optional[object]   a sequence of length 0 (None) or 1 (the object)    *)
(*   dict store         a sequence of objects with distinct instance_id,   *)
(*                      in insertion order (CPython dict iteration order)  *)
(***************************************************************************)
EXTENDS Integers, Sequences, FiniteSets, TLC

VARIABLES
    store,      \* StorageObjectCollection._store of the collection under test
    latest,     \* history: for each id, the argument of the last add() with that id
    addedIds,   \* history: every instance_id ever passed to add()
    ret,        \* the last collection operation called and what it returned
    source_dict,\* DecodeSpec: the JSON record handed to from_json
    decoded,    \* DecodeSpec: the last from_json call and its outcome
    self,       \* EntitySpec: the local fields of the Volume or VolumeFolder under test
    nsent,      \* EntitySpec: number of requests handed to the transport so far
    call,       \* EntitySpec: the last remote operation called and its outcome
    mapping,    \* EntitySpec, MappingSpec: the server the volume is mapped to on the
                \* storage center, None while it is unmapped
    gone,       \* EntitySpec, history: delete() or recycle() has returned True on self
    remote_folders, \* CreateSpec: the volume folder records the server holds
    sc_call,    \* ListingSpec, CreateSpec: the last StorageCenter operation and its outcome
    sc_sent,    \* ListingSpec: number of requests the listings issued so far
    sc_calls,   \* ListingSpec: number of listings invoked so far
    cli_args,   \* CliSpec: the parsed command line
    pc,         \* CliSpec: where the process is in __main__
    session,    \* CliSpec: state of the session with the management endpoint
    ran,        \* CliSpec: what execute_command did
    exit_code,  \* CliSpec: <<the exit status of the process>>, <<>> while it runs
    filtered,   \* QuerySpec: the container the last filter returned, <<>> if none
    iterator,   \* IterationSpec: the iteration in progress, <<>> if none
    dsm,        \* SessionSpec: the fields of the DsmSession
    dsm_call    \* SessionSpec: the last DsmSession method called and its outcome

collVars == <<store, latest, addedIds, ret>>
decVars == <<source_dict, decoded>>
entVars == <<self, nsent, call, mapping, gone>>
centerVars == <<remote_folders, sc_call, sc_sent, sc_calls>>
cliVars == <<cli_args, pc, session, ran, exit_code>>
heapVars == <<filtered, iterator>>
sessVars == <<dsm, dsm_call>>
vars == <<store, latest, addedIds, ret, source_dict, decoded, self, nsent, call, mapping,
          gone, remote_folders, sc_call, sc_sent, sc_calls, cli_args, pc, session, ran,
          exit_code, filtered, iterator, dsm, dsm_call>>

None == "None"

(***************************************************************************)
(* Values the model draws from                                             *)
(***************************************************************************)
Ids == {"1", "2", "3"}
UnknownId == "9"
Names == {"a", "b"}
UnknownName == "zz"

\* StorageObjectFolder instances (they carry every StorageObject field)
Folders == [instance_id : Ids, name : Names, parent_id : Ids \cup {None}]

Range(s) == {s[i] : i \in 1..Len(s)}

(***************************************************************************)
(* StorageObjectCollection                                                 *)
(***************************************************************************)
\* dict.__setitem__: an existing key keeps its position, a new key goes last
add_append_always(s, storage_object) == Append(s, storage_object)

add_keep_existing(s, storage_object) ==
    IF \E i \in 1..Len(s) : s[i].instance_id = storage_object.instance_id
    THEN s
    ELSE Append(s, storage_object)

add(s, storage_object) ==
    IF \E i \in 1..Len(s) : s[i].instance_id = storage_object.instance_id
    THEN [i \in 1..Len(s) |->
            IF s[i].instance_id = storage_object.instance_id
            THEN storage_object ELSE s[i]]
    ELSE Append(s, storage_object)

\* dict.get(instance_id, None)
find_by_instance_id(s, instance_id) ==
    LET hits == {i \in 1..Len(s) : s[i].instance_id = instance_id}
    IN IF hits = {} THEN <<>> ELSE <<s[CHOOSE i \in hits : TRUE]>>

\* the loop of find_by_name from position i on, result being the collection built so far
RECURSIVE find_by_name_loop(_, _, _, _)
find_by_name_loop(s, name, i, result) ==
    IF i > Len(s) THEN result
    ELSE find_by_name_loop(s, name, i + 1,
            IF s[i].name = name THEN add(result, s[i]) ELSE result)

RECURSIVE find_by_name_first_only(_, _)
find_by_name_first_only(s, name) ==
    IF s = <<>> THEN <<>>
    ELSE IF Head(s).name = name THEN <<Head(s)>>
    ELSE find_by_name_first_only(Tail(s), name)

find_by_name(s, name) == find_by_name_loop(s, name, 1, <<>>)

all_objects(s) == s

__len__(s) == Len(s)

(***************************************************************************)
(* StorageObjectFolder / StorageObjectFolderCollection                     *)
(***************************************************************************)
is_root(f) == f.parent_id = None

\* for folder in self: if folder.is_root: root = folder; break / else: root = None
RECURSIVE root_folder_loop(_, _)
root_folder_loop(s, i) ==
    IF i > Len(s) THEN <<>>
    ELSE IF is_root(s[i]) THEN <<s[i]>>
    ELSE root_folder_loop(s, i + 1)

root_folder_first_member(s) == IF s = <<>> THEN <<>> ELSE <<s[1]>>

root_folder_unique_only(s) ==
    LET roots == {i \in 1..Len(s) : is_root(s[i])}
    IN IF Cardinality(roots) = 1 THEN <<s[CHOOSE i \in roots : TRUE]>> ELSE <<>>

root_folder(s) == root_folder_loop(s, 1)

RECURSIVE find_by_parent_id_loop(_, _, _, _)
find_by_parent_id_loop(s, parent_id, i, result) ==
    IF i > Len(s) THEN result
    ELSE find_by_parent_id_loop(s, parent_id, i + 1,
            IF s[i].parent_id = parent_id THEN add(result, s[i]) ELSE result)

find_by_parent_id(s, parent_id) == find_by_parent_id_loop(s, parent_id, 1, <<>>)

\* the scm_api revision of the same two methods
RECURSIVE scm_root_folder_loop(_, _)
scm_root_folder_loop(s, i) ==
    IF i > Len(s) THEN <<>>
    ELSE IF is_root(s[i]) THEN <<s[i]>>
    ELSE scm_root_folder_loop(s, i + 1)

scm_root_folder(s) == scm_root_folder_loop(s, 1)

RECURSIVE scm_find_by_parent_id_loop(_, _, _, _)
scm_find_by_parent_id_loop(s, parent_id, i, result) ==
    IF i > Len(s) THEN result
    ELSE scm_find_by_parent_id_loop(s, parent_id, i + 1,
            IF s[i].instance_id = parent_id THEN add(result, s[i]) ELSE result)

scm_find_by_parent_id(s, parent_id) == scm_find_by_parent_id_loop(s, parent_id, 1, <<>>)

(***************************************************************************)
(* CollectionSpec: one collection, built by add() and queried              *)
(***************************************************************************)
Returned(op, key, obj, value) == [op |-> op, key |-> key, obj |-> obj, value |-> value]

CollIdle ==
    /\ store = <<>>
    /\ latest = {}
    /\ addedIds = {}
    /\ ret = Returned("__init__", None, <<>>, <<>>)

DecIdle ==
    /\ source_dict = <<>>
    /\ decoded = <<>>

EntIdle ==
    /\ self = <<>>
    /\ nsent = 0
    /\ call = <<>>
    /\ mapping = None
    /\ gone = FALSE

CenterIdle ==
    /\ remote_folders = <<>>
    /\ sc_call = <<>>
    /\ sc_sent = 0
    /\ sc_calls = 0

CliIdle ==
    /\ cli_args = <<>>
    /\ pc = "not started"
    /\ session = None
    /\ ran = <<>>
    /\ exit_code = <<>>

HeapIdle ==
    /\ filtered = <<>>
    /\ iterator = <<>>

SessIdle ==
    /\ dsm = <<>>
    /\ dsm_call = <<>>

CollectionInit ==
    CollIdle /\ DecIdle /\ EntIdle /\ CenterIdle /\ CliIdle /\ HeapIdle /\ SessIdle

Add(e) ==
    /\ store' = add(store, e)
    /\ latest' = {x \in latest : x.instance_id # e.instance_id} \cup {e}
    /\ addedIds' = addedIds \cup {e.instance_id}
    /\ ret' = Returned("add", e.instance_id, <<e>>, <<>>)
    /\ UNCHANGED <<decVars, entVars, centerVars, cliVars, heapVars, sessVars>>

Query(op, key, value) ==
    /\ ret' = Returned(op, key, <<>>, value)
    /\ UNCHANGED <<store, latest, addedIds, decVars, entVars, centerVars, cliVars,
                   heapVars, sessVars>>

FindByInstanceId(i) == Query("find_by_instance_id", i, find_by_instance_id(store, i))

FindByName(n) == Query("find_by_name", n, find_by_name(store, n))

RootFolder == Query("root_folder", None, root_folder(store))

FindByParentId(p) == Query("find_by_parent_id", p, find_by_parent_id(store, p))

ScmRootFolder == Query("scm_root_folder", None, scm_root_folder(store))

ScmFindByParentId(p) == Query("scm_find_by_parent_id", p, scm_find_by_parent_id(store, p))

CollectionNext ==
    \/ \E e \in Folders : Add(e)
    \/ \E i \in Ids \cup {UnknownId} : FindByInstanceId(i)
    \/ \E n \in Names \cup {UnknownName} : FindByName(n)
    \/ RootFolder
    \/ \E p \in Ids \cup {UnknownId} : FindByParentId(p)
    \/ ScmRootFolder
    \/ \E p \in Ids \cup {UnknownId} : ScmFindByParentId(p)

CollectionSpec == CollectionInit /\ [][CollectionNext]_vars

(***************************************************************************)
(* Properties of the collections (checked under CollectionSpec)            *)
(***************************************************************************)
Members(s, id) == {k \in 1..Len(s) : s[k].instance_id = id}

RootIndexes(s) == {k \in 1..Len(s) : s[k].parent_id = None}

Min(S) == CHOOSE m \in S : \A n \in S : m <= n

\* level of e in the hierarchy held by s: 1 for a root, 0 when e does not lead to a root
RECURSIVE LevelOf(_, _, _)
LevelOf(s, e, fuel) ==
    IF e.parent_id = None THEN 1
    ELSE IF fuel = 0 \/ Members(s, e.parent_id) = {} THEN 0
    ELSE LET up == LevelOf(s, s[CHOOSE k \in Members(s, e.parent_id) : TRUE], fuel - 1)
         IN IF up = 0 THEN 0 ELSE up + 1

IsTree(s) ==
    /\ Cardinality(RootIndexes(s)) = 1
    /\ \A k \in 1..Len(s) : LevelOf(s, s[k], Len(s)) > 0

Depth(s) == IF s = <<>> THEN 0 ELSE CHOOSE d \in 0..Len(s) :
    /\ \E k \in 1..Len(s) : LevelOf(s, s[k], Len(s)) = d
    /\ \A k \in 1..Len(s) : LevelOf(s, s[k], Len(s)) <= d

IsGrandchild(s, e, p) ==
    \E k \in 1..Len(s) : s[k].parent_id = p /\ e.parent_id = s[k].instance_id

\* C1: immediately after add(e), find_by_instance_id(e.instance_id) returns exactly e;
\* find_by_instance_id(i) returns None for every id i that was never added.
C1_FindAfterAdd ==
    /\ ret.op = "add" => find_by_instance_id(store, ret.key) = ret.obj
    /\ ret.op = "find_by_instance_id" /\ ret.key \notin addedIds => ret.value = <<>>
    /\ \A i \in (Ids \cup {UnknownId}) \ addedIds : find_by_instance_id(store, i) = <<>>

\* C1 witness: add(e) has just replaced the member stored first of three
C1_Witness ==
    /\ ret.op = "add"
    /\ Len(store) = 3
    /\ store[1] = ret.obj[1]

\* C2: the collection holds for each added id exactly one entity, the one most recently
\* added with that id, and its size is the number of distinct ids added.
C2_LastWriteWins ==
    /\ __len__(store) = Cardinality(addedIds)
    /\ \A i \in addedIds :
          /\ Cardinality(Members(store, i)) = 1
          /\ \A k \in Members(store, i) : store[k] \in latest
    /\ \A k \in 1..Len(store) : store[k].instance_id \in addedIds

\* C2 witness: an id already present was added again, two ids are held
C2_Witness ==
    /\ ret.op = "add"
    /\ Cardinality(addedIds) = 2
    /\ Len(store) = 2
    /\ store[1] = ret.obj[1]

\* C3: find_by_name(n) returns exactly the members whose name is n: empty when none
\* match, all of them when several match.
C3_FindByNameAll ==
    ret.op = "find_by_name" =>
        /\ Range(ret.value) = {e \in Range(store) : e.name = ret.key}
        /\ Len(ret.value) = Cardinality({e \in Range(store) : e.name = ret.key})

\* C3 witness: two of three members share the name looked up
C3_Witness ==
    /\ ret.op = "find_by_name"
    /\ Len(store) = 3
    /\ Len(ret.value) = 2

\* C4: with exactly one member whose parent_id is None, root_folder() returns that
\* member, whatever the other members and the order of insertion.
C4_SingleRootFound ==
    (ret.op \in {"root_folder", "scm_root_folder"} /\ Cardinality(RootIndexes(store)) = 1)
        => \A k \in RootIndexes(store) : ret.value = <<store[k]>>

\* C4 witness: the only root was inserted last, after two non-root members
C4_Witness ==
    /\ ret.op = "root_folder"
    /\ RootIndexes(store) = {3}
    /\ ret.value = <<store[3]>>

\* C5 as stated: with zero or with more than one member whose parent_id is None,
\* root_folder() returns None.
C5_Original ==
    (ret.op \in {"root_folder", "scm_root_folder"} /\ Cardinality(RootIndexes(store)) # 1)
        => ret.value = <<>>

\* C5 amended: root_folder() returns None only when no member has parent_id None; with
\* more than one such member it returns the first of them in iteration order.
C5_Amended ==
    ret.op \in {"root_folder", "scm_root_folder"} =>
        /\ RootIndexes(store) = {} => ret.value = <<>>
        /\ Cardinality(RootIndexes(store)) > 1 =>
              ret.value = <<store[Min(RootIndexes(store))]>>

\* C5 witness: two roots are held and root_folder() returned one of them
C5_Witness ==
    /\ ret.op = "root_folder"
    /\ Cardinality(RootIndexes(store)) = 2
    /\ ret.value # <<>>

\* C6: in a tree of depth at least 3, find_by_parent_id(p) returns exactly the members
\* whose parent_id is p: no grandchild of p, and not the folder p itself.
C6_DirectChildrenOnly ==
    (/\ ret.op \in {"find_by_parent_id", "scm_find_by_parent_id"}
     /\ IsTree(store)
     /\ Depth(store) >= 3)
        => /\ Range(ret.value) = {e \in Range(store) : e.parent_id = ret.key}
           /\ \A e \in Range(ret.value) :
                 /\ e.instance_id # ret.key
                 /\ ~IsGrandchild(store, e, ret.key)

\* C6 restricted to the dell_storage_api revision of find_by_parent_id
C6_DellRevision ==
    (/\ ret.op = "find_by_parent_id"
     /\ IsTree(store)
     /\ Depth(store) >= 3)
        => /\ Range(ret.value) = {e \in Range(store) : e.parent_id = ret.key}
           /\ \A e \in Range(ret.value) :
                 /\ e.instance_id # ret.key
                 /\ ~IsGrandchild(store, e, ret.key)

\* a tree of depth 3 was asked for the children of its root and returned the one child
C6_DellWitness ==
    /\ ret.op = "find_by_parent_id"
    /\ IsTree(store)
    /\ Depth(store) = 3
    /\ Len(ret.value) = 1
    /\ \E k \in RootIndexes(store) : store[k].instance_id = ret.key

(***************************************************************************)
(* JSON records and the from_json class methods                            *)
(*                                                                         *)
(* A JSON object is a function from its keys to its values.  The value of  *)
(* a nested key is tagged with its JSON kind: [kind |-> "object", obj |-> *)
(* d] or [kind |-> "null"], because dict.get exists only on the former.    *)
(* An outcome is [raised, key, object]: raised is None and object holds    *)
(* the instance built, or raised names the exception and object is empty.  *)
(***************************************************************************)
SESSION == "requests.Session"
BASE_URL == "https://host:3033/api/rest"

JsonObject(d) == [kind |-> "object", obj |-> d]
JsonNull == [kind |-> "null"]

Built(object) == [raised |-> None, key |-> None, object |-> <<object>>]
Raised(exception, key) == [raised |-> exception, key |-> key, object |-> <<>>]

\* StorageObject.from_json: instance_id=source_dict['instanceId'], name=source_dict['name']
StorageObject_from_json(req_session, base_url, d) ==
    IF "instanceId" \notin DOMAIN d THEN Raised("KeyError", "instanceId")
    ELSE IF "name" \notin DOMAIN d THEN Raised("KeyError", "name")
    ELSE Built([cls |-> "StorageObject", session |-> req_session, base_url |-> base_url,
                name |-> d["name"], instance_id |-> d["instanceId"]])

StorageObjectFolder_from_json_no_parent(req_session, base_url, d) ==
    IF "instanceId" \notin DOMAIN d THEN Raised("KeyError", "instanceId")
    ELSE IF "name" \notin DOMAIN d THEN Raised("KeyError", "name")
    ELSE Built([cls |-> "StorageObjectFolder", session |-> req_session,
                base_url |-> base_url, name |-> d["name"],
                instance_id |-> d["instanceId"], parent_id |-> None])

\* StorageObjectFolder.from_json: instanceId, name, then
\* parent_id=source_dict.get('parent', {}).get('instanceId', None)
StorageObjectFolder_from_json(req_session, base_url, d) ==
    IF "instanceId" \notin DOMAIN d THEN Raised("KeyError", "instanceId")
    ELSE IF "name" \notin DOMAIN d THEN Raised("KeyError", "name")
    ELSE LET parent == IF "parent" \in DOMAIN d THEN d["parent"] ELSE JsonObject(<<>>)
         IN IF parent.kind # "object" THEN Raised("AttributeError", "get")
            ELSE Built([cls |-> "StorageObjectFolder", session |-> req_session,
                        base_url |-> base_url, name |-> d["name"],
                        instance_id |-> d["instanceId"],
                        parent_id |-> IF "instanceId" \in DOMAIN parent.obj
                                      THEN parent.obj["instanceId"] ELSE None])

\* VolumeFolder.from_json: name, instanceId, then the same parent lookup
VolumeFolder_from_json(req_session, base_url, d) ==
    IF "name" \notin DOMAIN d THEN Raised("KeyError", "name")
    ELSE IF "instanceId" \notin DOMAIN d THEN Raised("KeyError", "instanceId")
    ELSE LET parent == IF "parent" \in DOMAIN d THEN d["parent"] ELSE JsonObject(<<>>)
         IN IF parent.kind # "object" THEN Raised("AttributeError", "get")
            ELSE Built([cls |-> "VolumeFolder", session |-> req_session,
                        base_url |-> base_url, name |-> d["name"],
                        instance_id |-> d["instanceId"],
                        parent_id |-> IF "instanceId" \in DOMAIN parent.obj
                                      THEN parent.obj["instanceId"] ELSE None])

\* Volume.from_json: name, instanceId, source_dict['volumeFolder']['instanceId'], deviceId
Volume_from_json(req_session, base_url, d) ==
    IF "name" \notin DOMAIN d THEN Raised("KeyError", "name")
    ELSE IF "instanceId" \notin DOMAIN d THEN Raised("KeyError", "instanceId")
    ELSE IF "volumeFolder" \notin DOMAIN d THEN Raised("KeyError", "volumeFolder")
    ELSE IF d["volumeFolder"].kind # "object" THEN Raised("TypeError", "volumeFolder")
    ELSE IF "instanceId" \notin DOMAIN d["volumeFolder"].obj
         THEN Raised("KeyError", "instanceId")
    ELSE IF "deviceId" \notin DOMAIN d THEN Raised("KeyError", "deviceId")
    ELSE Built([cls |-> "Volume", session |-> req_session, base_url |-> base_url,
                name |-> d["name"], instance_id |-> d["instanceId"],
                parent_folder_id |-> d["volumeFolder"].obj["instanceId"],
                wwid |-> d["deviceId"]])

(***************************************************************************)
(* DecodeSpec: a JSON record is drawn and the from_json methods decode it  *)
(***************************************************************************)
\* the JSON object holding the keys whose value is given (<<v>>), not those left out (<<>>)
MakeDict(instanceId, name, parent, volumeFolder, deviceId) ==
    LET given == [instanceId |-> instanceId, name |-> name, parent |-> parent,
                  volumeFolder |-> volumeFolder, deviceId |-> deviceId]
        keys == {k \in DOMAIN given : Len(given[k]) = 1}
    IN [k \in keys |-> given[k][1]]

Optionally(S) == {<<>>} \cup {<<x>> : x \in S}

NestedValues == {JsonNull, JsonObject(<<>>)} \cup {JsonObject([instanceId |-> i]) : i \in Ids}

SourceDicts ==
    {MakeDict(i, n, p, vf, dev) :
        i \in Optionally(Ids), n \in Optionally(Names), p \in Optionally(NestedValues),
        vf \in Optionally({JsonObject([instanceId |-> "1"])}),
        dev \in Optionally({"6000d31000"})}

Decoded(cls, outcome) == [cls |-> cls, raised |-> outcome.raised, key |-> outcome.key,
                          object |-> outcome.object]

DecodeInit ==
    /\ source_dict \in SourceDicts
    /\ decoded = Decoded("none", Raised(None, None))
    /\ CollIdle
    /\ EntIdle
    /\ CenterIdle
    /\ CliIdle
    /\ HeapIdle
    /\ SessIdle

DecodeStorageObject ==
    /\ decoded' = Decoded("StorageObject",
                          StorageObject_from_json(SESSION, BASE_URL, source_dict))
    /\ UNCHANGED <<source_dict, collVars, entVars, centerVars, cliVars, heapVars, sessVars>>

DecodeStorageObjectFolder ==
    /\ decoded' = Decoded("StorageObjectFolder",
                          StorageObjectFolder_from_json(SESSION, BASE_URL, source_dict))
    /\ UNCHANGED <<source_dict, collVars, entVars, centerVars, cliVars, heapVars, sessVars>>

DecodeVolumeFolder ==
    /\ decoded' = Decoded("VolumeFolder",
                          VolumeFolder_from_json(SESSION, BASE_URL, source_dict))
    /\ UNCHANGED <<source_dict, collVars, entVars, centerVars, cliVars, heapVars, sessVars>>

DecodeVolume ==
    /\ decoded' = Decoded("Volume", Volume_from_json(SESSION, BASE_URL, source_dict))
    /\ UNCHANGED <<source_dict, collVars, entVars, centerVars, cliVars, heapVars, sessVars>>

DecodeNext ==
    \/ DecodeStorageObject
    \/ DecodeStorageObjectFolder
    \/ DecodeVolumeFolder
    \/ DecodeVolume

DecodeSpec == DecodeInit /\ [][DecodeNext]_vars

\* C7: from_json yields an entity whose instance_id and name are the record's instanceId
\* and name; a folder's parent_id is parent.instanceId when a parent object is present
\* and None when the parent key is absent; a record lacking instanceId or name fails
\* with a decoding error (KeyError) and no entity.
C7_DecodeRoundTrip ==
    decoded.cls \in {"StorageObject", "StorageObjectFolder", "VolumeFolder"} =>
        /\ ("instanceId" \notin DOMAIN source_dict \/ "name" \notin DOMAIN source_dict)
              => decoded.raised = "KeyError" /\ decoded.object = <<>>
        /\ (/\ "instanceId" \in DOMAIN source_dict
            /\ "name" \in DOMAIN source_dict
            /\ (decoded.cls # "StorageObject" /\ "parent" \in DOMAIN source_dict)
                  => source_dict["parent"].kind = "object")
              => /\ decoded.raised = None
                 /\ Len(decoded.object) = 1
                 /\ decoded.object[1].instance_id = source_dict["instanceId"]
                 /\ decoded.object[1].name = source_dict["name"]
                 /\ decoded.cls # "StorageObject" =>
                       /\ "parent" \notin DOMAIN source_dict
                             => decoded.object[1].parent_id = None
                       /\ ("parent" \in DOMAIN source_dict
                           /\ "instanceId" \in DOMAIN source_dict["parent"].obj)
                             => decoded.object[1].parent_id
                                   = source_dict["parent"].obj["instanceId"]

\* C7 witness: a folder record with a parent object was decoded into a non-root folder
C7_Witness ==
    /\ decoded.cls = "StorageObjectFolder"
    /\ decoded.raised = None
    /\ "parent" \in DOMAIN source_dict
    /\ decoded.object[1].parent_id \in Ids
    /\ decoded.object[1].parent_id # decoded.object[1].instance_id

(***************************************************************************)
(* The transport, as the operations of Volume and VolumeFolder see it      *)
(*                                                                         *)
(* A request is [method, url, json]; json holds the payload, or nothing.   *)
(* A response is [status_code, body]; body is the kind of text the server  *)
(* sent, which decides what resp.json() does.                              *)
(***************************************************************************)
StatusCodes == {200, 201, 204, 500}
Bodies == {"json_object", "json_array", "not_json"}
Responses == [status_code : StatusCodes, body : Bodies]

Request(method, url, json) == [method |-> method, url |-> url, json |-> json]

\* resp.json().get('result'): json() raises on a body that is not JSON, and a JSON
\* value that is not an object has no get()
json_get_result(resp) ==
    CASE resp.body = "not_json" -> "ValueError"
      [] resp.body = "json_array" -> "AttributeError"
      [] OTHER -> None

\* what an operation did: the object afterwards, the requests it issued, and either
\* the exception it raised or the value it returned
Outcome(obj, requests, raised, returned) ==
    [self |-> obj, requests |-> requests, raised |-> raised, returned |-> returned]

\* endpoint_url % instance_id: the template is <<text before %s, text after %s>>
build_url(obj, endpoint_url) ==
    <<obj.base_url, endpoint_url[1], obj.instance_id, endpoint_url[2]>>

(***************************************************************************)
(* Volume                                                                  *)
(***************************************************************************)
VOLUME_ENDPOINT == <<"/StorageCenter/ScVolume/", "">>
MAPPING_ENDPOINT == <<"/StorageCenter/ScVolume/", "/MapToServer">>
UNMAPPING_ENDPOINT == <<"/StorageCenter/ScVolume/", "/Unmap">>
RECYCLE_ENDPOINT == <<"/StorageCenter/ScVolume/", "/Recycle">>
EXPAND_TO_SIZE_ENDPOINT == <<"/StorageCenter/ScVolume/", "/ExpandToSize">>
EXPAND_ENDPOINT == <<"/StorageCenter/ScVolume/", "/Expand">>

map_to_server(obj, server_id, resp) ==
    LET request == Request("POST", build_url(obj, MAPPING_ENDPOINT),
                           <<[Server |-> server_id]>>)
    IN IF resp.status_code = 200 THEN Outcome(obj, <<request>>, None, <<TRUE>>)
       ELSE IF json_get_result(resp) # None
            THEN Outcome(obj, <<request>>, json_get_result(resp), <<>>)
       ELSE Outcome(obj, <<request>>, None, <<FALSE>>)

unmap(obj, resp) ==
    LET request == Request("POST", build_url(obj, UNMAPPING_ENDPOINT), <<>>)
    IN IF resp.status_code = 204 THEN Outcome(obj, <<request>>, None, <<TRUE>>)
       ELSE Outcome(obj, <<request>>, None, <<FALSE>>)

expand(obj, size, resp) ==
    LET request == Request("POST", build_url(obj, EXPAND_ENDPOINT),
                           <<[ExpandAmount |-> size]>>)
    IN IF resp.status_code = 200 THEN Outcome(obj, <<request>>, None, <<TRUE>>)
       ELSE IF json_get_result(resp) # None
            THEN Outcome(obj, <<request>>, json_get_result(resp), <<>>)
       ELSE Outcome(obj, <<request>>, None, <<FALSE>>)

expand_to_size(obj, size, resp) ==
    LET request == Request("POST", build_url(obj, EXPAND_TO_SIZE_ENDPOINT),
                           <<[NewSize |-> size]>>)
    IN IF resp.status_code = 200 THEN Outcome(obj, <<request>>, None, <<TRUE>>)
       ELSE IF json_get_result(resp) # None
            THEN Outcome(obj, <<request>>, json_get_result(resp), <<>>)
       ELSE Outcome(obj, <<request>>, None, <<FALSE>>)

recycle(obj, resp) ==
    LET request == Request("POST", build_url(obj, RECYCLE_ENDPOINT), <<>>)
    IN IF resp.status_code = 204 THEN Outcome(obj, <<request>>, None, <<TRUE>>)
       ELSE Outcome(obj, <<request>>, None, <<FALSE>>)

Volume_delete(obj, resp) ==
    LET request == Request("DELETE", build_url(obj, VOLUME_ENDPOINT), <<>>)
    IN IF resp.status_code = 200 THEN Outcome(obj, <<request>>, None, <<TRUE>>)
       ELSE IF json_get_result(resp) # None
            THEN Outcome(obj, <<request>>, json_get_result(resp), <<>>)
       ELSE Outcome(obj, <<request>>, None, <<FALSE>>)

_modify_volume(obj, payload, resp) ==
    LET request == Request("PUT", build_url(obj, VOLUME_ENDPOINT), <<payload>>)
    IN IF resp.status_code = 200 THEN Outcome(obj, <<request>>, None, <<TRUE>>)
       ELSE Outcome(obj, <<request>>, None, <<FALSE>>)

Volume_rename_before_reply(obj, new_name, resp) ==
    LET modified == _modify_volume(obj, [Name |-> new_name], resp)
    IN Outcome([modified.self EXCEPT !.name = new_name], modified.requests, None,
               modified.returned)

Volume_rename(obj, new_name, resp) ==
    LET modified == _modify_volume(obj, [Name |-> new_name], resp)
    IN IF modified.returned = <<TRUE>>
       THEN Outcome([modified.self EXCEPT !.name = new_name], modified.requests,
                    None, <<TRUE>>)
       ELSE Outcome(modified.self, modified.requests, None, <<FALSE>>)

Volume_move_to_folder_rekeyed(obj, volume_folder_id, resp) ==
    LET modified == _modify_volume(obj, [VolumeFolder |-> volume_folder_id], resp)
    IN IF modified.returned = <<TRUE>>
       THEN Outcome([modified.self EXCEPT !.instance_id = volume_folder_id],
                    modified.requests, None, <<TRUE>>)
       ELSE Outcome(modified.self, modified.requests, None, <<FALSE>>)

Volume_move_to_folder(obj, volume_folder_id, resp) ==
    LET modified == _modify_volume(obj, [VolumeFolder |-> volume_folder_id], resp)
    IN IF modified.returned = <<TRUE>>
       THEN Outcome([modified.self EXCEPT !.parent_folder_id = volume_folder_id],
                    modified.requests, None, <<TRUE>>)
       ELSE Outcome(modified.self, modified.requests, None, <<FALSE>>)

(***************************************************************************)
(* VolumeFolder                                                            *)
(***************************************************************************)
VOLUME_FOLDER_ENDPOINT == <<"/StorageCenter/ScVolumeFolder/", "">>

_modify_volume_folder(obj, payload, resp) ==
    LET request == Request("PUT", build_url(obj, VOLUME_FOLDER_ENDPOINT), <<payload>>)
    IN IF resp.status_code = 200 THEN Outcome(obj, <<request>>, None, <<TRUE>>)
       ELSE Outcome(obj, <<request>>, None, <<FALSE>>)

VolumeFolder_rename(obj, name, resp) ==
    LET modified == _modify_volume_folder(obj, [Name |-> name], resp)
    IN IF modified.returned = <<TRUE>>
       THEN Outcome([modified.self EXCEPT !.name = name], modified.requests,
                    None, <<TRUE>>)
       ELSE Outcome(modified.self, modified.requests, None, <<FALSE>>)

VolumeFolder_move_to_folder_and_rename(obj, parent_folder_id, resp) ==
    LET modified == _modify_volume_folder(obj, [VolumeFolder |-> parent_folder_id], resp)
    IN IF modified.returned = <<TRUE>>
       THEN Outcome([modified.self EXCEPT !.parent_id = parent_folder_id,
                                          !.name = parent_folder_id],
                    modified.requests, None, <<TRUE>>)
       ELSE Outcome(modified.self, modified.requests, None, <<FALSE>>)

VolumeFolder_move_to_folder(obj, parent_folder_id, resp) ==
    LET modified == _modify_volume_folder(obj, [VolumeFolder |-> parent_folder_id], resp)
    IN IF modified.returned = <<TRUE>>
       THEN Outcome([modified.self EXCEPT !.parent_id = parent_folder_id],
                    modified.requests, None, <<TRUE>>)
       ELSE Outcome(modified.self, modified.requests, None, <<FALSE>>)

VolumeFolder_delete(obj, resp) ==
    LET request == Request("DELETE", build_url(obj, VOLUME_FOLDER_ENDPOINT), <<>>)
    IN IF resp.status_code = 200 THEN Outcome(obj, <<request>>, None, <<TRUE>>)
       ELSE IF json_get_result(resp) # None
            THEN Outcome(obj, <<request>>, json_get_result(resp), <<>>)
       ELSE Outcome(obj, <<request>>, None, <<FALSE>>)

(***************************************************************************)
(* EntitySpec: one Volume or VolumeFolder, decoded from a server record,   *)
(* on which the caller invokes operations; the transport answers each      *)
(* request with any status and body                                        *)
(***************************************************************************)
MaxRequests == 3

ServerIds == {"srv-1", "srv-2"}
Sizes == {"500GB"}

VolumeRecords ==
    {MakeDict(<<"1">>, <<n>>, <<>>, <<JsonObject([instanceId |-> f])>>, <<"6000d31000">>) :
        n \in Names, f \in Ids}

VolumeFolderRecords ==
    {MakeDict(<<"1">>, <<n>>, p, <<>>, <<>>) :
        n \in Names, p \in Optionally({JsonObject([instanceId |-> i]) : i \in Ids \ {"1"}})}

\* the record of one call; mapped_before is the mapping the server held when it came,
\* gone_before tells whether delete() or recycle() had returned True before it
Invoked(op, arg, before, resp, outcome) ==
    [op |-> op, arg |-> arg, before |-> before, status_code |-> resp.status_code,
     body |-> resp.body, requests |-> outcome.requests, raised |-> outcome.raised,
     returned |-> outcome.returned, mapped_before |-> mapping, gone_before |-> gone]

\* the mapping on the server after it answered a request of op: MapToServer answered
\* 200 mapped the volume to the server asked for, Unmap answered 204 unmapped it
served(mapped, op, arg, resp) ==
    IF op = "map_to_server" /\ resp.status_code = 200 THEN arg
    ELSE IF op = "unmap" /\ resp.status_code = 204 THEN None
    ELSE mapped

EntityInit ==
    /\ self \in {Volume_from_json(SESSION, BASE_URL, d).object[1] : d \in VolumeRecords}
           \cup {VolumeFolder_from_json(SESSION, BASE_URL, d).object[1] :
                    d \in VolumeFolderRecords}
    /\ nsent = 0
    /\ call = [op |-> "none", arg |-> None, before |-> self, status_code |-> 0,
               body |-> None, requests |-> <<>>, raised |-> None, returned |-> <<>>,
               mapped_before |-> None, gone_before |-> FALSE]
    /\ mapping = None
    /\ gone = FALSE
    /\ CollIdle
    /\ DecIdle
    /\ CenterIdle
    /\ CliIdle
    /\ HeapIdle
    /\ SessIdle

\* the caller invokes op(arg) on self: the object, the request count and the record of
\* the call all follow from what the operation did
Invoke(cls, op, arg, resp, outcome) ==
    /\ self.cls = cls
    /\ nsent < MaxRequests
    /\ self' = outcome.self
    /\ nsent' = nsent + Len(outcome.requests)
    /\ call' = Invoked(op, arg, self, resp, outcome)
    /\ mapping' = served(mapping, op, arg, resp)
    /\ gone' = (gone \/ (op \in {"delete", "recycle"} /\ outcome.returned = <<TRUE>>))
    /\ UNCHANGED <<collVars, decVars, centerVars, cliVars, heapVars, sessVars>>

VolumeMapToServer_guarded(server_id, resp) ==
    Invoke("Volume", "map_to_server", server_id, resp,
           IF mapping # None THEN Outcome(self, <<>>, None, <<FALSE>>)
           ELSE map_to_server(self, server_id, resp))

VolumeMapToServer(server_id, resp) ==
    Invoke("Volume", "map_to_server", server_id, resp, map_to_server(self, server_id, resp))

VolumeUnmap(resp) == Invoke("Volume", "unmap", None, resp, unmap(self, resp))

VolumeExpand(size, resp) == Invoke("Volume", "expand", size, resp, expand(self, size, resp))

VolumeExpandToSize(size, resp) ==
    Invoke("Volume", "expand_to_size", size, resp, expand_to_size(self, size, resp))

VolumeRecycle(resp) == Invoke("Volume", "recycle", None, resp, recycle(self, resp))

VolumeDelete(resp) == Invoke("Volume", "delete", None, resp, Volume_delete(self, resp))

VolumeRename_refused_when_gone(new_name, resp) ==
    Invoke("Volume", "rename", new_name, resp,
           IF gone THEN Outcome(self, <<>>, None, <<FALSE>>)
           ELSE Volume_rename(self, new_name, resp))

VolumeRename(new_name, resp) ==
    Invoke("Volume", "rename", new_name, resp, Volume_rename(self, new_name, resp))

VolumeMoveToFolder(volume_folder_id, resp) ==
    Invoke("Volume", "move_to_folder", volume_folder_id, resp,
           Volume_move_to_folder(self, volume_folder_id, resp))

VolumeFolderRename(name, resp) ==
    Invoke("VolumeFolder", "rename", name, resp, VolumeFolder_rename(self, name, resp))

VolumeFolderMoveToFolder(parent_folder_id, resp) ==
    Invoke("VolumeFolder", "move_to_folder", parent_folder_id, resp,
           VolumeFolder_move_to_folder(self, parent_folder_id, resp))

VolumeFolderDelete(resp) ==
    Invoke("VolumeFolder", "delete", None, resp, VolumeFolder_delete(self, resp))

EntityNext ==
    \E resp \in Responses :
        \/ \E server_id \in ServerIds : VolumeMapToServer(server_id, resp)
        \/ VolumeUnmap(resp)
        \/ \E size \in Sizes : VolumeExpand(size, resp)
        \/ \E size \in Sizes : VolumeExpandToSize(size, resp)
        \/ VolumeRecycle(resp)
        \/ VolumeDelete(resp)
        \/ \E new_name \in Names : VolumeRename(new_name, resp)
        \/ \E volume_folder_id \in Ids : VolumeMoveToFolder(volume_folder_id, resp)
        \/ \E name \in Names : VolumeFolderRename(name, resp)
        \/ \E parent_folder_id \in Ids : VolumeFolderMoveToFolder(parent_folder_id, resp)
        \/ VolumeFolderDelete(resp)

EntitySpec == EntityInit /\ [][EntityNext]_vars

(***************************************************************************)
(* Properties of the remote operations (checked under EntitySpec)          *)
(***************************************************************************)
\* the one status each operation takes for success
SuccessCode(op) == IF op \in {"unmap", "recycle"} THEN 204 ELSE 200

\* C8: rename(new_name) sets the local name to new_name and returns True when the
\* transport reports 200; on any other status the name keeps its previous value and
\* rename returns False (Volume and VolumeFolder).
C8_RenameFollowsStatus ==
    call.op = "rename" =>
        /\ call.status_code = 200 => self.name = call.arg /\ call.returned = <<TRUE>>
        /\ call.status_code # 200 =>
              self.name = call.before.name /\ call.returned = <<FALSE>>

\* C8 witness: a Volume's rename to another name was refused with 500
C8_Witness ==
    /\ call.op = "rename"
    /\ self.cls = "Volume"
    /\ call.status_code = 500
    /\ call.arg # call.before.name
    /\ call.returned = <<FALSE>>

\* C9: every mutating operation issues exactly one remote call and returns True if and
\* only if the status is the operation's success code; every other status, another 2xx
\* code included, yields False.
C9_StatusDecidesResult ==
    call.op # "none" =>
        /\ Len(call.requests) = 1
        /\ call.returned = <<TRUE>> <=> call.status_code = SuccessCode(call.op)
        /\ call.status_code # SuccessCode(call.op) => call.returned = <<FALSE>>

\* C9 where the response body is a JSON object, as the server's error replies are
C9_JsonObjectBody ==
    (call.op # "none" /\ call.body = "json_object") =>
        /\ Len(call.requests) = 1
        /\ call.returned = <<TRUE>> <=> call.status_code = SuccessCode(call.op)
        /\ call.status_code # SuccessCode(call.op) => call.returned = <<FALSE>>

\* C10: a call that receives a non-success status leaves every local field as it was;
\* a successful rename changes only name, a successful move_to_folder only the parent
\* field, and the other operations change no local field.
C10_LocalFrame ==
    call.op # "none" =>
        /\ call.status_code # SuccessCode(call.op) => self = call.before
        /\ call.status_code = SuccessCode(call.op) =>
              CASE call.op = "rename" -> self = [call.before EXCEPT !.name = call.arg]
                [] call.op = "move_to_folder" /\ self.cls = "Volume" ->
                      self = [call.before EXCEPT !.parent_folder_id = call.arg]
                [] call.op = "move_to_folder" /\ self.cls = "VolumeFolder" ->
                      self = [call.before EXCEPT !.parent_id = call.arg]
                [] OTHER -> self = call.before
        /\ self.instance_id = call.before.instance_id
        /\ self.cls = "Volume" => self.wwid = call.before.wwid

\* C10 witness: a VolumeFolder was moved to another parent and kept its name
C10_Witness ==
    /\ call.op = "move_to_folder"
    /\ self.cls = "VolumeFolder"
    /\ call.status_code = 200
    /\ self.parent_id = call.arg
    /\ call.before.parent_id # call.arg
    /\ self.name = call.before.name

\* C11: a mutating operation that receives a non-success status returns False and never
\* raises, whatever the response body is (empty or not JSON included).
C11_FailureNeverRaises ==
    (call.op # "none" /\ call.status_code # SuccessCode(call.op)) =>
        /\ call.raised = None
        /\ call.returned = <<FALSE>>

\* C11 for the operations that report a failure without parsing the body
C11_HoldsWithoutBodyParsing ==
    (/\ call.op \in {"unmap", "recycle", "rename", "move_to_folder"}
     /\ call.status_code # SuccessCode(call.op)) =>
        /\ call.raised = None
        /\ call.returned = <<FALSE>>

(***************************************************************************)
(* StorageCenter                                                           *)
(*                                                                         *)
(* The reply to a GET is [status_code, json, items]: json tells whether    *)
(* the body parses as JSON and items is the JSON list it holds.  The reply *)
(* to a create POST is [status_code, body], body being what the server put *)
(* in the record of the created object.  An operation yields [requests,    *)
(* raised, kind, value]: the requests it issued in order, the exception it *)
(* raised (None if it returned), the kind of value returned and the value  *)
(* as a sequence (members of a collection, the one entity, or nothing).    *)
(***************************************************************************)
SERVER_FOLDER_LIST_ENDPOINT == <<"/StorageCenter/StorageCenter/", "/ServerFolderList">>
SERVER_LIST_ENDPOINT == <<"/StorageCenter/StorageCenter/", "/ServerList">>
VOLUME_FOLDER_LIST_ENDPOINT == <<"/StorageCenter/StorageCenter/", "/VolumeFolderList">>
VOLUME_LIST_ENDPOINT == <<"/StorageCenter/StorageCenter/", "/VolumeList">>
Volume_ENDPOINT == "/StorageCenter/ScVolume"
VolumeFolder_ENDPOINT == "/StorageCenter/ScVolumeFolder"

\* Server.from_json: name, instanceId, objectType
Server_from_json(req_session, base_url, d) ==
    IF "name" \notin DOMAIN d THEN Raised("KeyError", "name")
    ELSE IF "instanceId" \notin DOMAIN d THEN Raised("KeyError", "instanceId")
    ELSE IF "objectType" \notin DOMAIN d THEN Raised("KeyError", "objectType")
    ELSE Built([cls |-> "Server", session |-> req_session, base_url |-> base_url,
                name |-> d["name"], instance_id |-> d["instanceId"],
                type |-> d["objectType"]])

\* the scm_api revision calls StorageObjectFolder.from_json, which its
\* StorageObjectFolder does not define
scm_StorageObjectFolder_from_json(req_session, base_url, d) ==
    Raised("AttributeError", "from_json")

\* cls.from_json(req_session, base_url, d) for the class named cls
from_json(cls, req_session, base_url, d) ==
    CASE cls = "Server" -> Server_from_json(req_session, base_url, d)
      [] cls = "VolumeFolder" -> VolumeFolder_from_json(req_session, base_url, d)
      [] cls = "Volume" -> Volume_from_json(req_session, base_url, d)
      [] cls = "scm_api.StorageObjectFolder" ->
            scm_StorageObjectFolder_from_json(req_session, base_url, d)

Yielded(requests, raised, kind, value) ==
    [requests |-> requests, raised |-> raised, kind |-> kind, value |-> value]

_fetch_object_list_any_status(obj, url, resp) ==
    LET request == Request("GET", url, <<>>)
    IN IF resp.json THEN Yielded(<<request>>, None, "list", resp.items)
       ELSE Yielded(<<request>>, "ValueError", "nothing", <<>>)

\* result = {}; resp = self.session.get(url); result = resp.json() on status 200
_fetch_object_list(obj, url, resp) ==
    LET request == Request("GET", url, <<>>)
    IN IF resp.status_code = 200
       THEN IF resp.json THEN Yielded(<<request>>, None, "list", resp.items)
            ELSE Yielded(<<request>>, "ValueError", "nothing", <<>>)
       ELSE Yielded(<<request>>, None, "dict", <<>>)

RECURSIVE add_all(_, _)
add_all(result, objects) ==
    IF objects = <<>> THEN result
    ELSE add_all(add(result, Head(objects)), Tail(objects))

\* for data in fetched: result.add(cls.from_json(self.session, self.base_url, data));
\* the first record from_json raises on ends the loop with that exception
decode_loop(cls, obj, fetched) ==
    LET loop(outcomes) ==
            LET failed == {i \in 1..Len(fetched) : outcomes[i].raised # None}
            IN IF failed # {}
               THEN [raised |-> outcomes[Min(failed)].raised, value |-> <<>>]
               ELSE [raised |-> None,
                     value |-> add_all(<<>>, [i \in 1..Len(fetched) |->
                                                 outcomes[i].object[1]])]
    IN loop([i \in 1..Len(fetched) |->
                from_json(cls, obj.session, obj.base_url, fetched[i])])

\* a listing that decodes what _fetch_object_list returned into a collection
decoded_list(cls, collection, obj, fetched) ==
    LET decoded_as(result) ==
            IF fetched.raised # None THEN fetched
            ELSE IF result.raised # None
                 THEN Yielded(fetched.requests, result.raised, "nothing", <<>>)
            ELSE Yielded(fetched.requests, None, collection, result.value)
    IN decoded_as(decode_loop(cls, obj, fetched.value))

server_folder_list(obj, resp) ==
    _fetch_object_list(obj, build_url(obj, SERVER_FOLDER_LIST_ENDPOINT), resp)

server_list(obj, resp) ==
    decoded_list("Server", "ServerCollection", obj,
                 _fetch_object_list(obj, build_url(obj, SERVER_LIST_ENDPOINT), resp))

volume_folder_list(obj, resp) ==
    decoded_list("VolumeFolder", "StorageObjectFolderCollection", obj,
                 _fetch_object_list(obj, build_url(obj, VOLUME_FOLDER_LIST_ENDPOINT), resp))

volume_list(obj, resp) ==
    decoded_list("Volume", "VolumeCollection", obj,
                 _fetch_object_list(obj, build_url(obj, VOLUME_LIST_ENDPOINT), resp))

(***************************************************************************)
(* ListingSpec: the listings of one StorageCenter, each GET answered by    *)
(* the transport with any status and body                                  *)
(***************************************************************************)
MaxListings == 3

\* the StorageCenter under test, as DsmSession.storage_centers builds it
storage_center ==
    [cls |-> "StorageCenter", session |-> SESSION, base_url |-> BASE_URL,
     name |-> "sc", instance_id |-> "64914", serial_num |-> "64914",
     ip_addr |-> "192.0.2.1"]

ListStatusCodes == {200, 204, 500}

ListReplies(lists) ==
    [status_code : ListStatusCodes, json : {TRUE}, items : lists]
        \cup [status_code : ListStatusCodes, json : {FALSE}, items : {<<>>}]

ServerRecord == [instanceId |-> "1", name |-> "a", objectType |-> "ScPhysicalServer"]
ServerRecordNoType == [instanceId |-> "2", name |-> "b"]
ServerLists == {<<>>, <<ServerRecord>>, <<ServerRecord, ServerRecordNoType>>}

FolderRecord(instanceId, name, parent) ==
    MakeDict(<<instanceId>>, <<name>>, parent, <<>>, <<>>)
ChildOf(instanceId) == <<JsonObject([instanceId |-> instanceId])>>
FolderRecordNoName(instanceId, parent) == MakeDict(<<instanceId>>, <<>>, parent, <<>>, <<>>)

VolumeRecord(instanceId, name, folder) ==
    MakeDict(<<instanceId>>, <<name>>, <<>>, ChildOf(folder), <<"6000d31000">>)
VolumeRecordNoDeviceId(instanceId, name, folder) ==
    MakeDict(<<instanceId>>, <<name>>, <<>>, ChildOf(folder), <<>>)
VolumeLists ==
    {<<>>, <<VolumeRecord("1", "a", "2")>>,
     <<VolumeRecord("1", "a", "2"), VolumeRecordNoDeviceId("2", "b", "2")>>}

ListedFolders ==
    {<<>>, <<FolderRecord("1", "a", <<>>), FolderRecord("2", "b", ChildOf("1"))>>,
     <<FolderRecordNoName("1", <<>>)>>}

NoPost == [status_code |-> 0, body |-> "none"]

Called(op, arg, prev, gets, post, outcome) ==
    [op |-> op, arg |-> arg, prev |-> prev, gets |-> gets, post |-> post,
     requests |-> outcome.requests, raised |-> outcome.raised, kind |-> outcome.kind,
     value |-> outcome.value]

NoCall == Called("none", "", "none", <<>>, NoPost, Yielded(<<>>, None, "nothing", <<>>))

ListingInit ==
    /\ remote_folders = <<>>
    /\ sc_call = NoCall
    /\ sc_sent = 0
    /\ sc_calls = 0
    /\ CollIdle
    /\ DecIdle
    /\ EntIdle
    /\ CliIdle
    /\ HeapIdle
    /\ SessIdle

\* the caller invokes one listing; resp is the transport's answer to its GET
Listing(op, resp, outcome) ==
    /\ sc_calls < MaxListings
    /\ sc_call' = Called(op, "", sc_call.op, <<resp>>, NoPost, outcome)
    /\ sc_sent' = sc_sent + Len(outcome.requests)
    /\ sc_calls' = sc_calls + 1
    /\ UNCHANGED <<remote_folders, collVars, decVars, entVars, cliVars, heapVars, sessVars>>

ServerFolderList(resp) ==
    Listing("server_folder_list", resp, server_folder_list(storage_center, resp))

ServerList(resp) == Listing("server_list", resp, server_list(storage_center, resp))

VolumeFolderList(resp) ==
    Listing("volume_folder_list", resp, volume_folder_list(storage_center, resp))

VolumeList(resp) == Listing("volume_list", resp, volume_list(storage_center, resp))

ListingNext ==
    \/ \E resp \in ListReplies(ListedFolders) : ServerFolderList(resp)
    \/ \E resp \in ListReplies(ServerLists) : ServerList(resp)
    \/ \E resp \in ListReplies(ListedFolders) : VolumeFolderList(resp)
    \/ \E resp \in ListReplies(VolumeLists) : VolumeList(resp)

ListingSpec == ListingInit /\ [][ListingNext]_vars

(***************************************************************************)
(* Properties of the listings (checked under ListingSpec)                  *)
(***************************************************************************)
Listings == {"server_folder_list", "server_list", "volume_folder_list", "volume_list"}

\* the keys from_json reads from a record of the listing without a default
RequiredKeys(op) ==
    CASE op = "server_list" -> {"name", "instanceId", "objectType"}
      [] op = "volume_list" -> {"name", "instanceId", "volumeFolder", "deviceId"}
      [] OTHER -> {"name", "instanceId"}

\* C12: a list operation answered with a success status and a body holding a record
\* that lacks a required key returns its sentinel, the empty collection, and does not
\* raise.
C12_DecodeErrorYieldsSentinel ==
    (/\ sc_call.op \in Listings \ {"server_folder_list"}
     /\ sc_call.gets[1].status_code = 200
     /\ \E i \in 1..Len(sc_call.gets[1].items) :
           ~(RequiredKeys(sc_call.op) \subseteq DOMAIN sc_call.gets[1].items[i]))
        => /\ sc_call.raised = None
           /\ sc_call.kind # "nothing"
           /\ sc_call.value = <<>>

Found(requests, raised, root) == [requests |-> requests, raised |-> raised, root |-> root]

_find_volume_folder_root_first_listed(obj, resps) ==
    LET root_of(all_folders) ==
            IF all_folders.raised # None
            THEN Found(all_folders.requests, all_folders.raised, <<>>)
            ELSE IF all_folders.value = <<>> THEN Found(all_folders.requests, None, <<>>)
            ELSE Found(all_folders.requests, None, <<all_folders.value[1]>>)
    IN root_of(volume_folder_list(obj, resps[1]))

\* all_folders = self.volume_folder_list(); if it is not empty,
\* root_folder = self.volume_folder_list().root_folder(): the list is fetched again;
\* resps are the transport's answers to the first and the second GET
_find_volume_folder_root(obj, resps) ==
    LET root_of(all_folders, fetched_again) ==
            IF all_folders.raised # None
            THEN Found(all_folders.requests, all_folders.raised, <<>>)
            ELSE IF all_folders.value = <<>> THEN Found(all_folders.requests, None, <<>>)
            ELSE IF fetched_again.raised # None
                 THEN Found(all_folders.requests \o fetched_again.requests,
                            fetched_again.raised, <<>>)
            ELSE Found(all_folders.requests \o fetched_again.requests, None,
                       root_folder(fetched_again.value))
    IN root_of(volume_folder_list(obj, resps[1]), volume_folder_list(obj, resps[2]))

NewInstanceId == "3"
CreateBodies == {"echo", "other", "no_name", "not_json"}

\* resp.json() of the reply to a create POST: the record of the created object, which
\* reports the folder the request asked for (echo), another one, or lacks its name
created_record(resp, payload) ==
    IF "Parent" \in DOMAIN payload
    THEN CASE resp.body = "echo" ->
                 FolderRecord(NewInstanceId, payload.Name, ChildOf(payload.Parent))
           [] resp.body = "other" -> FolderRecord(NewInstanceId, payload.Name, <<>>)
           [] OTHER -> FolderRecordNoName(NewInstanceId, ChildOf(payload.Parent))
    ELSE CASE resp.body = "echo" ->
                 VolumeRecord(NewInstanceId, payload.Name, payload.VolumeFolder)
           [] resp.body = "other" -> VolumeRecord(NewInstanceId, payload.Name, UnknownId)
           [] OTHER -> MakeDict(<<NewInstanceId>>, <<>>, <<>>,
                                ChildOf(payload.VolumeFolder), <<"6000d31000">>)

\* resp = self.session.post(url, json=payload); on 201 return from_json(resp.json())
post_and_decode(cls, obj, sent, request, resp) ==
    LET answered(requests, decoded_object) ==
            IF resp.status_code = 201
            THEN IF resp.body = "not_json"
                 THEN Yielded(requests, "ValueError", "nothing", <<>>)
                 ELSE IF decoded_object.raised # None
                      THEN Yielded(requests, decoded_object.raised, "nothing", <<>>)
                 ELSE Yielded(requests, None, cls, decoded_object.object)
            ELSE Yielded(requests, None, "None", <<>>)
    IN answered(Append(sent, request),
                from_json(cls, obj.session, obj.base_url,
                          created_record(resp, request.json[1])))

new_volume_folder(obj, name, parent_folder_id, gets, resp) ==
    LET payload(folder_id) ==
            [Name |-> name, Parent |-> folder_id, StorageCenter |-> obj.instance_id]
        create_in(parent_folder, folder_id) ==
            IF parent_folder.raised # None
            THEN Yielded(parent_folder.requests, parent_folder.raised, "nothing", <<>>)
            ELSE IF parent_folder_id = "" /\ parent_folder.root = <<>>
                 THEN Yielded(parent_folder.requests, None, "None", <<>>)
            ELSE IF folder_id = None
                 THEN Yielded(parent_folder.requests, None, "None", <<>>)
            ELSE post_and_decode("VolumeFolder", obj, parent_folder.requests,
                                 Request("POST", <<obj.base_url, VolumeFolder_ENDPOINT>>,
                                         <<payload(folder_id)>>),
                                 resp)
        resolved(parent_folder) ==
            create_in(parent_folder,
                      IF parent_folder_id = "" /\ parent_folder.root # <<>>
                      THEN parent_folder.root[1].instance_id ELSE parent_folder_id)
    IN resolved(IF parent_folder_id = "" THEN _find_volume_folder_root(obj, gets)
                ELSE Found(<<>>, None, <<>>))

new_volume(obj, name, size, volume_folder_id, gets, resp) ==
    LET payload(folder_id) ==
            [Name |-> name, Size |-> size, StorageCenter |-> obj.instance_id,
             VolumeFolder |-> folder_id]
        create_in(volume_folder, folder_id) ==
            IF volume_folder.raised # None
            THEN Yielded(volume_folder.requests, volume_folder.raised, "nothing", <<>>)
            ELSE IF volume_folder_id = "" /\ volume_folder.root = <<>>
                 THEN Yielded(volume_folder.requests, None, "None", <<>>)
            ELSE IF folder_id = None
                 THEN Yielded(volume_folder.requests, None, "None", <<>>)
            ELSE post_and_decode("Volume", obj, volume_folder.requests,
                                 Request("POST", <<obj.base_url, Volume_ENDPOINT>>,
                                         <<payload(folder_id)>>),
                                 resp)
        resolved(volume_folder) ==
            create_in(volume_folder,
                      IF volume_folder_id = "" /\ volume_folder.root # <<>>
                      THEN volume_folder.root[1].instance_id ELSE volume_folder_id)
    IN resolved(IF volume_folder_id = "" THEN _find_volume_folder_root(obj, gets)
                ELSE Found(<<>>, None, <<>>))

\* the scm_api revision: _fetch_folder_list decodes with StorageObjectFolder.from_json
scm__fetch_folder_list(obj, url, resp) ==
    LET fetched(requests, result) ==
            IF resp.status_code = 200
            THEN IF ~resp.json THEN Yielded(requests, "ValueError", "nothing", <<>>)
                 ELSE IF result.raised # None
                      THEN Yielded(requests, result.raised, "nothing", <<>>)
                 ELSE Yielded(requests, None, "StorageObjectFolderCollection",
                              result.value)
            ELSE Yielded(requests, None, "StorageObjectFolderCollection", <<>>)
    IN fetched(<<Request("GET", url, <<>>)>>,
               decode_loop("scm_api.StorageObjectFolder", obj, resp.items))

scm_volume_folder_list(obj, resp) ==
    scm__fetch_folder_list(obj, build_url(obj, VOLUME_FOLDER_LIST_ENDPOINT), resp)

\* the scm_api revision of new_volume, which looks the root folder up itself
scm_new_volume(obj, name, size, volume_folder, gets, resp) ==
    LET payload(folder_id) ==
            [Name |-> name, Size |-> size, StorageCenter |-> obj.instance_id,
             VolumeFolder |-> folder_id]
        create_in(sent, folder_id) ==
            post_and_decode("Volume", obj, sent,
                            Request("POST", <<obj.base_url, Volume_ENDPOINT>>,
                                    <<payload(folder_id)>>),
                            resp)
        create_in_root(all_folders, fetched_again, looked_up, root) ==
            IF all_folders.raised # None
            THEN Yielded(all_folders.requests, all_folders.raised, "nothing", <<>>)
            ELSE IF all_folders.value = <<>>
                 THEN Yielded(all_folders.requests, None, "None", <<>>)
            ELSE IF fetched_again.raised # None
                 THEN Yielded(looked_up, fetched_again.raised, "nothing", <<>>)
            ELSE IF root = <<>> THEN Yielded(looked_up, None, "None", <<>>)
            ELSE create_in(looked_up, root[1].instance_id)
        looked_up_in(all_folders, fetched_again) ==
            create_in_root(all_folders, fetched_again,
                           all_folders.requests \o fetched_again.requests,
                           scm_root_folder(fetched_again.value))
    IN IF volume_folder = ""
       THEN looked_up_in(scm_volume_folder_list(obj, gets[1]),
                         scm_volume_folder_list(obj, gets[2]))
       ELSE create_in(<<>>, volume_folder)

(***************************************************************************)
(* CreateSpec: new_volume and new_volume_folder on one StorageCenter whose *)
(* server holds a list of volume folders; the server answers a folder-list *)
(* GET with that list or with an error, and a create POST with any status  *)
(***************************************************************************)
RemoteFolderLists ==
    {<<>>,
     <<FolderRecord("1", "a", <<>>), FolderRecord("2", "b", ChildOf("1"))>>,
     <<FolderRecord("2", "b", ChildOf("1")), FolderRecord("1", "a", <<>>)>>,
     <<FolderRecord("2", "b", ChildOf("1"))>>,
     <<FolderRecord("1", "a", <<>>), FolderRecord("2", "b", <<>>)>>,
     <<FolderRecord("1", "a", <<>>), FolderRecordNoName("2", ChildOf("1"))>>,
     <<FolderRecordNoName("2", ChildOf("1"))>>}

\* the answers to a folder-list GET: the list the server holds, or a failure
FolderListReplies ==
    {[status_code |-> 200, json |-> TRUE, items |-> remote_folders],
     [status_code |-> 500, json |-> FALSE, items |-> <<>>]}

CreateReplies ==
    [status_code : {201}, body : CreateBodies]
        \cup [status_code : {200, 500}, body : {"not_json"}]

NewNames == {"new"}
FolderArguments == {"2"}

CreateInit ==
    /\ remote_folders \in RemoteFolderLists
    /\ sc_call = NoCall
    /\ sc_sent = 0
    /\ sc_calls = 0
    /\ CollIdle
    /\ DecIdle
    /\ EntIdle
    /\ CliIdle
    /\ HeapIdle
    /\ SessIdle

\* the caller invokes a create operation with folder_id ("" when omitted); gets are the
\* answers to the folder-list GETs it may issue, resp the answer to its POST
Create(op, folder_id, gets, resp, outcome) ==
    /\ sc_call' = Called(op, folder_id, sc_call.op, gets, resp, outcome)
    /\ UNCHANGED <<remote_folders, sc_sent, sc_calls, collVars, decVars, entVars, cliVars,
                   heapVars, sessVars>>

NewVolume(name, size, volume_folder_id, gets, resp) ==
    Create("new_volume", volume_folder_id, gets, resp,
           new_volume(storage_center, name, size, volume_folder_id, gets, resp))

NewVolumeFolder(name, parent_folder_id, gets, resp) ==
    Create("new_volume_folder", parent_folder_id, gets, resp,
           new_volume_folder(storage_center, name, parent_folder_id, gets, resp))

ScmNewVolume(name, size, volume_folder, gets, resp) ==
    Create("scm_new_volume", volume_folder, gets, resp,
           scm_new_volume(storage_center, name, size, volume_folder, gets, resp))

CreateNext ==
    \E name \in NewNames, resp \in CreateReplies,
       gets \in FolderListReplies \X FolderListReplies, folder_id \in FolderArguments :
        \/ \E size \in Sizes : NewVolume(name, size, "", gets, resp)
        \/ \E size \in Sizes : NewVolume(name, size, folder_id, <<>>, resp)
        \/ NewVolumeFolder(name, "", gets, resp)
        \/ NewVolumeFolder(name, folder_id, <<>>, resp)
        \/ \E size \in Sizes : ScmNewVolume(name, size, "", gets, resp)
        \/ \E size \in Sizes : ScmNewVolume(name, size, folder_id, <<>>, resp)

CreateSpec == CreateInit /\ [][CreateNext]_vars

(***************************************************************************)
(* Properties of the create operations (checked under CreateSpec)          *)
(***************************************************************************)
Creates == {"new_volume", "new_volume_folder", "scm_new_volume"}

Methods(requests) == [i \in 1..Len(requests) |-> requests[i].method]

PostIssued == \E i \in 1..Len(sc_call.requests) : sc_call.requests[i].method = "POST"

\* the folder id was omitted and the folder list cannot give a root: a fetch of it
\* failed, or it is empty, or every folder in it has a parent
RootResolutionFails ==
    /\ sc_call.arg = ""
    /\ \/ sc_call.gets[1].status_code # 200
       \/ sc_call.gets[2].status_code # 200
       \/ sc_call.gets[1].items = <<>>
       \/ \A i \in 1..Len(sc_call.gets[2].items) :
             "parent" \in DOMAIN sc_call.gets[2].items[i]

\* C14: new_volume and new_volume_folder return None, and issue no create POST, when
\* the folder id is omitted and root resolution fails; they return None when the
\* create POST's status is not 201; they return an entity only when it is 201.
C14_CreateFailureContract ==
    sc_call.op \in Creates =>
        /\ RootResolutionFails => sc_call.kind = "None" /\ ~PostIssued
        /\ (PostIssued /\ sc_call.post.status_code # 201) => sc_call.kind = "None"
        /\ sc_call.kind \in {"Volume", "VolumeFolder"} =>
              PostIssued /\ sc_call.post.status_code = 201

\* C14 for the dell_storage_api revision when every listed folder record has its name
C14_DellWellFormedRecords ==
    (/\ sc_call.op \in {"new_volume", "new_volume_folder"}
     /\ \A i \in 1..Len(remote_folders) : "name" \in DOMAIN remote_folders[i]) =>
        /\ RootResolutionFails => sc_call.kind = "None" /\ ~PostIssued
        /\ (PostIssued /\ sc_call.post.status_code # 201) => sc_call.kind = "None"
        /\ sc_call.kind \in {"Volume", "VolumeFolder"} =>
              PostIssued /\ sc_call.post.status_code = 201

\* C15: a create operation that succeeds issues exactly two requests, one folder-list
\* GET and then the create POST, when the folder id is omitted, and exactly one
\* request, the create POST, when the folder id is supplied.
C15_OneExtraRoundTrip ==
    (sc_call.op \in Creates /\ sc_call.kind \in {"Volume", "VolumeFolder"}) =>
        IF sc_call.arg = "" THEN Methods(sc_call.requests) = <<"GET", "POST">>
        ELSE Methods(sc_call.requests) = <<"POST">>

\* C15 for the calls that supply the folder id
C15_FolderIdSupplied ==
    (sc_call.op \in Creates /\ sc_call.arg # "") =>
        Methods(sc_call.requests) = <<"POST">>

\* C16: when new_volume_folder is called with no parent, the Parent field of its create
\* request is the instance id of a folder that has no parent in the folder list fetched
\* during the call; when the server echoes the requested parent in the created record,
\* the VolumeFolder returned has that root's id as parent_id, which is not None.
C16_ParentIsResolvedRoot ==
    (sc_call.op = "new_volume_folder" /\ sc_call.arg = "" /\ PostIssued) =>
        LET payload == sc_call.requests[Len(sc_call.requests)].json[1]
            fetched == sc_call.gets[2].items
        IN /\ sc_call.gets[2].status_code = 200
           /\ \E i \in 1..Len(fetched) :
                 /\ fetched[i]["instanceId"] = payload.Parent
                 /\ "parent" \notin DOMAIN fetched[i]
           /\ (sc_call.post.status_code = 201 /\ sc_call.post.body = "echo") =>
                 /\ sc_call.kind = "VolumeFolder"
                 /\ sc_call.value[1].parent_id = payload.Parent
                 /\ sc_call.value[1].parent_id # None

\* C16 witness: the root was listed after its child, the folder was created under it
C16_Witness ==
    /\ sc_call.op = "new_volume_folder"
    /\ sc_call.arg = ""
    /\ sc_call.kind = "VolumeFolder"
    /\ sc_call.post.body = "echo"
    /\ "parent" \in DOMAIN sc_call.gets[2].items[1]
    /\ sc_call.value[1].parent_id = "1"

server_accepts(mapped, op, resp) ==
    (op = "map_to_server" /\ mapped # None) => resp.status_code # 200

MappingInit ==
    /\ EntityInit
    /\ self.cls = "Volume"

MappingNext ==
    \E resp \in Responses :
        \/ \E server_id \in ServerIds :
              /\ server_accepts(mapping, "map_to_server", resp)
              /\ VolumeMapToServer(server_id, resp)
        \/ /\ server_accepts(mapping, "unmap", resp)
           /\ VolumeUnmap(resp)

MappingSpec == MappingInit /\ [][MappingNext]_vars

Mapped(m) == m # None

\* C18: against that server the mapping changes only from Unmapped to Mapped, by a
\* map_to_server that returns True, and from Mapped to Unmapped, by an unmap that
\* returns True; map_to_server on a Mapped volume returns False and leaves it Mapped;
\* a call that returns False leaves the mapping as it was.
C18_MappingStateMachine ==
    call.op # "none" =>
        /\ mapping # call.mapped_before =>
              \/ /\ ~Mapped(call.mapped_before) /\ Mapped(mapping)
                 /\ call.op = "map_to_server" /\ call.returned = <<TRUE>>
              \/ /\ Mapped(call.mapped_before) /\ ~Mapped(mapping)
                 /\ call.op = "unmap" /\ call.returned = <<TRUE>>
        /\ (call.op = "map_to_server" /\ Mapped(call.mapped_before)) =>
              call.returned = <<FALSE>> /\ mapping = call.mapped_before
        /\ call.returned = <<FALSE>> => mapping = call.mapped_before

\* C18 without the value map_to_server returns on a Mapped volume: the transitions
\* of the mapping alone
C18_TransitionsOnly ==
    call.op # "none" =>
        /\ mapping # call.mapped_before =>
              \/ /\ ~Mapped(call.mapped_before) /\ Mapped(mapping)
                 /\ call.op = "map_to_server" /\ call.returned = <<TRUE>>
              \/ /\ Mapped(call.mapped_before) /\ ~Mapped(mapping)
                 /\ call.op = "unmap" /\ call.returned = <<TRUE>>
        /\ (call.op = "map_to_server" /\ Mapped(call.mapped_before)) =>
              call.returned # <<TRUE>> /\ mapping = call.mapped_before
        /\ call.returned = <<FALSE>> => mapping = call.mapped_before

(***************************************************************************)
(* The command line client (storage_client.py), which works on the        *)
(* scm_api revision of StorageCenter.  Tables printed are not modelled.  A *)
(* command yields [requests, raised, rc]: the requests it made on the      *)
(* storage center, the exception that left it (None if it returned) and    *)
(* the return code (<<>> if it raised, otherwise <<rc>>).                  *)
(***************************************************************************)
ReturnCode_SUCCESS == 0
ReturnCode_FAILURE == 1

\* the exit status of the interpreter when an exception is not caught
UncaughtExceptionStatus == 1

Ran(requests, raised, rc) == [requests |-> requests, raised |-> raised, rc |-> rc]

scm_volume_list(obj, resp) ==
    decoded_list("Volume", "VolumeCollection", obj,
                 _fetch_object_list(obj, build_url(obj, VOLUME_LIST_ENDPOINT), resp))

scm_find_by_name(s, name) == find_by_name_loop(s, name, 1, <<>>)

\* if unique_name and storage.volume_list().find_by_name(name): return FAILURE
\* then SUCCESS if storage.new_volume(name, size, folder_id) else FAILURE
volume_create(storage, name, size, unique_name, folder_id, list_resp, gets, resp) ==
    LET listed == scm_volume_list(storage, list_resp)
        sent == IF unique_name THEN listed.requests ELSE <<>>
        created == scm_new_volume(storage, name, size, folder_id, gets, resp)
    IN IF unique_name /\ listed.raised # None THEN Ran(sent, listed.raised, <<>>)
       ELSE IF unique_name /\ scm_find_by_name(listed.value, name) # <<>>
            THEN Ran(sent, None, <<ReturnCode_FAILURE>>)
       ELSE IF created.raised # None
            THEN Ran(sent \o created.requests, created.raised, <<>>)
       ELSE IF created.kind = "Volume"
            THEN Ran(sent \o created.requests, None, <<ReturnCode_SUCCESS>>)
       ELSE Ran(sent \o created.requests, None, <<ReturnCode_FAILURE>>)

\* all_volumes = storage.volume_list(), filtered and printed; return SUCCESS
cli_volume_list(storage, folder_id, list_resp) ==
    LET listed == scm_volume_list(storage, list_resp)
    IN IF listed.raised # None THEN Ran(listed.requests, listed.raised, <<>>)
       ELSE Ran(listed.requests, None, <<ReturnCode_SUCCESS>>)

\* folder_list = storage.volume_folder_list(), filtered and printed; return SUCCESS
cli_volume_folder_list(storage, parent_id, get) ==
    LET listed == scm_volume_folder_list(storage, get)
    IN IF listed.raised # None THEN Ran(listed.requests, listed.raised, <<>>)
       ELSE Ran(listed.requests, None, <<ReturnCode_SUCCESS>>)

\* the unique-name test on storage.volume_folder_list(), then
\* storage.new_volume_folder(...), a method the scm_api StorageCenter does not have
volume_folder_create(storage, folder_name, folder_parent_id, unique_name, get) ==
    LET listed == scm_volume_folder_list(storage, get)
        sent == IF unique_name THEN listed.requests ELSE <<>>
    IN IF unique_name /\ listed.raised # None THEN Ran(sent, listed.raised, <<>>)
       ELSE IF unique_name /\ scm_find_by_name(listed.value, folder_name) # <<>>
            THEN Ran(sent, None, <<ReturnCode_FAILURE>>)
       ELSE Ran(sent, "AttributeError", <<>>)

storage_center_list(centers) == Ran(<<>>, None, <<ReturnCode_SUCCESS>>)

\* sc = session.storage_centers().find_by_instance_id(instance_id)
_find_storage_center(centers, instance_id) == find_by_instance_id(centers, instance_id)

\* execute_command: centers is what session.storage_centers() returns, list_resp, gets
\* and resp are the transport's answers to the requests the command may make
execute_command(args, centers, list_resp, gets, resp) ==
    LET sc == _find_storage_center(centers, args.storage_id)
        unique_name == ~args.non_unique_name
        folder_id == IF args.folder_id = None THEN "" ELSE args.folder_id
    IN IF args.command = "volume"
       THEN IF args.subcommand = "create"
            THEN IF sc = <<>> THEN Ran(<<>>, None, <<ReturnCode_FAILURE>>)
                 ELSE volume_create(sc[1], args.name, args.size, unique_name, "",
                                    list_resp, gets, resp)
            ELSE IF args.subcommand = "list"
                 THEN IF sc = <<>> THEN Ran(<<>>, None, <<ReturnCode_FAILURE>>)
                      ELSE cli_volume_list(sc[1], folder_id, list_resp)
            ELSE Ran(<<>>, None, <<ReturnCode_FAILURE>>)
       ELSE IF args.command = "storage_center"
            THEN IF args.subcommand = "list" THEN storage_center_list(centers)
                 ELSE Ran(<<>>, None, <<ReturnCode_FAILURE>>)
       ELSE IF args.command = "volume_folder"
            THEN IF args.subcommand = "list"
                 THEN IF sc = <<>> THEN Ran(<<>>, None, <<ReturnCode_FAILURE>>)
                      ELSE cli_volume_folder_list(sc[1], folder_id, gets[1])
                 ELSE IF args.subcommand = "create"
                      THEN IF sc = <<>> THEN Ran(<<>>, None, <<ReturnCode_FAILURE>>)
                           ELSE volume_folder_create(sc[1], args.name, args.folder_id,
                                                     unique_name, gets[1])
                 ELSE Ran(<<>>, None, <<ReturnCode_FAILURE>>)
       ELSE Ran(<<>>, None, <<ReturnCode_FAILURE>>)

(***************************************************************************)
(* CliSpec: one run of the client: login, execute_command, exit_cli        *)
(***************************************************************************)
CliArguments ==
    [command : {"volume", "volume_folder", "storage_center", None},
     subcommand : {"create", "list", None},
     storage_id : {storage_center.instance_id, "0"},
     name : {"a", "new"}, size : Sizes, folder_id : {None, "2"},
     non_unique_name : BOOLEAN]

\* what scm_session.login() returns
LoginResults == BOOLEAN

\* what session.storage_centers() returns: the managed storage center, or nothing
StorageCentersResults == {<<>>, <<storage_center>>}

CliVolumeReplies ==
    [status_code : {200}, json : {TRUE}, items : VolumeLists]
        \cup {[status_code |-> 500, json |-> FALSE, items |-> <<>>]}

CliFolderLists ==
    {<<>>, <<FolderRecord("1", "a", <<>>), FolderRecord("2", "b", ChildOf("1"))>>}

CliFolderReplies(folders) ==
    {[status_code |-> 200, json |-> TRUE, items |-> folders],
     [status_code |-> 500, json |-> FALSE, items |-> <<>>]}

\* what execute_command did, with the answers it was given
Executed(outcome, centers, list_resp, gets, resp) ==
    [requests |-> outcome.requests, raised |-> outcome.raised, rc |-> outcome.rc,
     centers |-> centers, list_resp |-> list_resp, gets |-> gets, post |-> resp]

CliInit ==
    /\ cli_args \in CliArguments
    /\ pc = "login"
    /\ session = "new"
    /\ ran = Executed(Ran(<<>>, None, <<>>), <<>>, NoPost, <<>>, NoPost)
    /\ exit_code = <<>>
    /\ CollIdle
    /\ DecIdle
    /\ EntIdle
    /\ CenterIdle
    /\ HeapIdle
    /\ SessIdle

\* if not scm_session.login(): exit(ReturnCode.SUCCESS)
Login(logged_in) ==
    /\ pc = "login"
    /\ IF logged_in
       THEN /\ session' = "logged in"
            /\ pc' = "execute_command"
            /\ UNCHANGED exit_code
       ELSE /\ session' = "login failed"
            /\ pc' = "exited"
            /\ exit_code' = <<ReturnCode_SUCCESS>>
    /\ UNCHANGED <<cli_args, ran, collVars, decVars, entVars, centerVars, heapVars, sessVars>>

\* ret_code = execute_command(cli_args, scm_session); an exception that leaves it ends
\* the process
ExecuteCommand(centers, list_resp, gets, resp) ==
    LET outcome == execute_command(cli_args, centers, list_resp, gets, resp)
    IN /\ pc = "execute_command"
       /\ ran' = Executed(outcome, centers, list_resp, gets, resp)
       /\ IF outcome.raised # None
          THEN pc' = "exited" /\ exit_code' = <<UncaughtExceptionStatus>>
          ELSE pc' = "exit_cli" /\ UNCHANGED exit_code
       /\ UNCHANGED <<cli_args, session, collVars, decVars, entVars, centerVars,
                      heapVars, sessVars>>

\* exit_cli: session.logout(silent=True); exit(return_code)
ExitCli ==
    /\ pc = "exit_cli"
    /\ session' = "logged out"
    /\ exit_code' = ran.rc
    /\ pc' = "exited"
    /\ UNCHANGED <<cli_args, ran, collVars, decVars, entVars, centerVars, heapVars, sessVars>>

CliNext ==
    \/ \E logged_in \in LoginResults : Login(logged_in)
    \/ \E centers \in StorageCentersResults, list_resp \in CliVolumeReplies,
          folders \in CliFolderLists, resp \in CreateReplies :
          \E gets \in CliFolderReplies(folders) \X CliFolderReplies(folders) :
              ExecuteCommand(centers, list_resp, gets, resp)
    \/ ExitCli

CliSpec == CliInit /\ [][CliNext]_vars

(***************************************************************************)
(* Properties of the client (checked under CliSpec)                        *)
(***************************************************************************)
Recognised ==
    \/ cli_args.command \in {"volume", "volume_folder"}
          /\ cli_args.subcommand \in {"create", "list"}
    \/ cli_args.command = "storage_center" /\ cli_args.subcommand = "list"

NeedsStorageCenter == cli_args.command \in {"volume", "volume_folder"}

UnknownStorageCenter ==
    \A i \in 1..Len(ran.centers) : ran.centers[i].instance_id # cli_args.storage_id

IsCreate == cli_args.command \in {"volume", "volume_folder"} /\ cli_args.subcommand = "create"

ObjectCreated ==
    /\ ran.raised = None
    /\ ran.requests # <<>>
    /\ ran.requests[Len(ran.requests)].method = "POST"
    /\ ran.post.status_code = 201

\* C19: the process exits with 0 only when the requested command succeeded, and with 1
\* on every failure: a failed login, an unknown storage-center id, an unrecognised
\* subcommand, a failed create.
C19_ExitCodes ==
    pc = "exited" =>
        /\ exit_code \in {<<0>>, <<1>>}
        /\ session = "login failed" => exit_code = <<1>>
        /\ session # "login failed" =>
              /\ ~Recognised => exit_code = <<1>>
              /\ (Recognised /\ NeedsStorageCenter /\ UnknownStorageCenter) =>
                    exit_code = <<1>>
              /\ (IsCreate /\ ~ObjectCreated) => exit_code = <<1>>
        /\ exit_code = <<0>> =>
              /\ session = "logged out"
              /\ Recognised
              /\ NeedsStorageCenter => ~UnknownStorageCenter
              /\ IsCreate => ObjectCreated

\* C19 for the runs whose login succeeded
C19_AfterLogin ==
    (pc = "exited" /\ session # "login failed") =>
        /\ exit_code \in {<<0>>, <<1>>}
        /\ ~Recognised => exit_code = <<1>>
        /\ (Recognised /\ NeedsStorageCenter /\ UnknownStorageCenter) => exit_code = <<1>>
        /\ (IsCreate /\ ~ObjectCreated) => exit_code = <<1>>
        /\ exit_code = <<0>> =>
              /\ session = "logged out"
              /\ Recognised
              /\ NeedsStorageCenter => ~UnknownStorageCenter
              /\ IsCreate => ObjectCreated

FolderListUrl == build_url(storage_center, VOLUME_FOLDER_LIST_ENDPOINT)

\* C20: when volume create is given --folder-id f, no root folder is resolved (the
\* folder list is not fetched) and the create request carries VolumeFolder = f; the
\* root is resolved only when --folder-id is omitted.
C20_FolderIdIsPassedOn ==
    (/\ cli_args.command = "volume"
     /\ cli_args.subcommand = "create"
     /\ cli_args.folder_id # None
     /\ pc \in {"exit_cli", "exited"}) =>
        \A i \in 1..Len(ran.requests) :
            /\ ran.requests[i].url # FolderListUrl
            /\ ran.requests[i].method = "POST" =>
                  ran.requests[i].json[1].VolumeFolder = cli_args.folder_id

(***************************************************************************)
(* MoveSpec: move_to_folder of a Volume, of a VolumeFolder, and of a       *)
(* VolumeFolder of the scm_api revision                                    *)
(***************************************************************************)
\* self.<attribute> = value on an object that may not have the attribute yet
setattr(obj, attribute, value) ==
    [a \in DOMAIN obj \cup {attribute} |-> IF a = attribute THEN value ELSE obj[a]]

\* scm_api VolumeFolder.from_json: the same lookups as the later revision
scm_VolumeFolder_from_json(req_session, base_url, d) ==
    LET built(folder) ==
            IF folder.raised # None THEN folder
            ELSE Built([folder.object[1] EXCEPT !.cls = "scm_api.VolumeFolder"])
    IN built(VolumeFolder_from_json(req_session, base_url, d))

\* scm_api VolumeFolder.move_to_folder: on success self.parent_folder_id is assigned
scm_VolumeFolder_move_to_folder(obj, parent_folder_id, resp) ==
    LET moved(modified) ==
            IF modified.returned = <<TRUE>>
            THEN Outcome(setattr(modified.self, "parent_folder_id", parent_folder_id),
                         modified.requests, None, <<TRUE>>)
            ELSE Outcome(modified.self, modified.requests, None, <<FALSE>>)
    IN moved(_modify_volume_folder(obj, [VolumeFolder |-> parent_folder_id], resp))

ScmVolumeFolderMoveToFolder(parent_folder_id, resp) ==
    Invoke("scm_api.VolumeFolder", "move_to_folder", parent_folder_id, resp,
           scm_VolumeFolder_move_to_folder(self, parent_folder_id, resp))

MoveInit ==
    /\ self \in {Volume_from_json(SESSION, BASE_URL, d).object[1] : d \in VolumeRecords}
           \cup {VolumeFolder_from_json(SESSION, BASE_URL, d).object[1] :
                    d \in VolumeFolderRecords}
           \cup {scm_VolumeFolder_from_json(SESSION, BASE_URL, d).object[1] :
                    d \in VolumeFolderRecords}
    /\ nsent = 0
    /\ call = [op |-> "none", arg |-> None, before |-> self, status_code |-> 0,
               body |-> None, requests |-> <<>>, raised |-> None, returned |-> <<>>,
               mapped_before |-> None, gone_before |-> FALSE]
    /\ mapping = None
    /\ gone = FALSE
    /\ CollIdle
    /\ DecIdle
    /\ CenterIdle
    /\ CliIdle
    /\ HeapIdle
    /\ SessIdle

MoveNext ==
    \E resp \in Responses, folder_id \in Ids :
        \/ VolumeMoveToFolder(folder_id, resp)
        \/ VolumeFolderMoveToFolder(folder_id, resp)
        \/ ScmVolumeFolderMoveToFolder(folder_id, resp)

MoveSpec == MoveInit /\ [][MoveNext]_vars

IsFolder(obj) == obj.cls \in {"VolumeFolder", "scm_api.VolumeFolder"}

\* C21: after move_to_folder(p) returned True on a VolumeFolder its parent_id is p, so
\* it is no root and find_by_parent_id(p) on a collection holding it includes it; after
\* it returned False parent_id is as before. Likewise for a Volume and parent_folder_id.
C21_MoveUpdatesParent ==
    call.op = "move_to_folder" =>
        /\ (call.returned = <<TRUE>> /\ IsFolder(self)) =>
              /\ self.parent_id = call.arg
              /\ ~is_root(self)
              /\ self \in Range(find_by_parent_id(add(<<>>, self), call.arg))
        /\ (call.returned = <<FALSE>> /\ IsFolder(self)) =>
              self.parent_id = call.before.parent_id
        /\ (call.returned = <<TRUE>> /\ self.cls = "Volume") =>
              self.parent_folder_id = call.arg
        /\ (call.returned = <<FALSE>> /\ self.cls = "Volume") =>
              self.parent_folder_id = call.before.parent_folder_id

\* C21 for the classes of dell_storage_api alone
C21_DellRevision ==
    (call.op = "move_to_folder" /\ self.cls \in {"Volume", "VolumeFolder"}) =>
        /\ (call.returned = <<TRUE>> /\ IsFolder(self)) =>
              /\ self.parent_id = call.arg
              /\ ~is_root(self)
              /\ self \in Range(find_by_parent_id(add(<<>>, self), call.arg))
        /\ (call.returned = <<FALSE>> /\ IsFolder(self)) =>
              self.parent_id = call.before.parent_id
        /\ (call.returned = <<TRUE>> /\ self.cls = "Volume") =>
              self.parent_folder_id = call.arg
        /\ (call.returned = <<FALSE>> /\ self.cls = "Volume") =>
              self.parent_folder_id = call.before.parent_folder_id

(***************************************************************************)
(* Identity of an entity (checked under EntitySpec)                        *)
(***************************************************************************)
\* C22: no operation on an entity, successful or failed, changes its instance_id, so
\* a collection that stored the entity under its instance_id before the operation
\* still finds it under the instance_id it has afterwards.
C22_InstanceIdImmutable ==
    [][/\ self'.instance_id = self.instance_id
       /\ find_by_instance_id(add(<<>>, self), self'.instance_id) = <<self>>]_vars

\* C22 witness: three requests were answered, the last one a move_to_folder that
\* succeeded and changed the volume's folder
C22_Witness ==
    /\ nsent = MaxRequests
    /\ call.op = "move_to_folder"
    /\ self.cls = "Volume"
    /\ call.returned = <<TRUE>>
    /\ self.parent_folder_id # call.before.parent_folder_id
    /\ self.instance_id = call.before.instance_id

(***************************************************************************)
(* QuerySpec: the queries of a collection and what a caller does with the  *)
(* container a filter returned                                             *)
(***************************************************************************)
MaxResultLen == 3

\* VolumeCollection.find_by_parent_folder
RECURSIVE find_by_parent_folder_loop(_, _, _, _)
find_by_parent_folder_loop(s, folder_id, i, found) ==
    IF i > Len(s) THEN found
    ELSE find_by_parent_folder_loop(s, folder_id, i + 1,
            IF s[i].parent_folder_id = folder_id THEN add(found, s[i]) ELSE found)

find_by_parent_folder(s, folder_id) == find_by_parent_folder_loop(s, folder_id, 1, <<>>)

\* a container handed to the caller: is_self tells whether it is the collection the
\* method was called on, _store is what it holds
new_collection_is_self(s, contents) ==
    [kind |-> "collection", is_self |-> TRUE, _store |-> s]

\* result = StorageObjectCollection(), filled by the loop of the filter
new_collection(s, contents) ==
    [kind |-> "collection", is_self |-> FALSE, _store |-> contents]

\* [item for item in self._store.values()]
new_list(contents) == [kind |-> "list", is_self |-> FALSE, _store |-> contents]

QueryFolders == [instance_id : Ids, name : Names, parent_id : {None, "1"}]
QueryVolumes == [instance_id : Ids, name : {"a"}, parent_folder_id : {"1", "2"}]
AddedLater ==
    {[instance_id |-> "3", name |-> "b", parent_id |-> "1"],
     [instance_id |-> "1", name |-> "b", parent_id |-> None]}

\* the collections add() builds from at most two members
CollectionsOf(members) ==
    {<<>>} \cup {<<e>> : e \in members}
           \cup {add(<<e1>>, e2) : e1 \in members, e2 \in members}

IsVolumeCollection(s) == \A i \in 1..Len(s) : "parent_folder_id" \in DOMAIN s[i]
IsFolderCollection(s) == \A i \in 1..Len(s) : "parent_id" \in DOMAIN s[i]

QueryInit ==
    /\ store \in CollectionsOf(QueryFolders) \cup CollectionsOf(QueryVolumes)
    /\ latest = {}
    /\ addedIds = {}
    /\ ret = Returned("__init__", None, <<>>, <<>>)
    /\ filtered = <<>>
    /\ iterator = <<>>
    /\ DecIdle
    /\ EntIdle
    /\ CenterIdle
    /\ CliIdle
    /\ SessIdle

\* a query that returns an entity or None
Lookup(op, key, value) ==
    /\ ret' = Returned(op, key, <<>>, value)
    /\ filtered' = <<>>
    /\ UNCHANGED <<store, latest, addedIds, iterator, decVars, entVars, centerVars,
                   cliVars, sessVars>>

\* a query that returns a container
Filter(op, key, container) ==
    /\ ret' = Returned(op, key, <<>>, container._store)
    /\ filtered' = container
    /\ UNCHANGED <<store, latest, addedIds, iterator, decVars, entVars, centerVars,
                   cliVars, sessVars>>

LookupByInstanceId(i) ==
    Lookup("find_by_instance_id", i, find_by_instance_id(store, i))

LookupRootFolder ==
    /\ IsFolderCollection(store)
    /\ Lookup("root_folder", None, root_folder(store))

FilterByName(n) ==
    Filter("find_by_name", n, new_collection(store, find_by_name(store, n)))

FilterByParentId(p) ==
    /\ IsFolderCollection(store)
    /\ Filter("find_by_parent_id", p, new_collection(store, find_by_parent_id(store, p)))

FilterByParentFolder(f) ==
    /\ IsVolumeCollection(store)
    /\ Filter("find_by_parent_folder", f,
              new_collection(store, find_by_parent_folder(store, f)))

AllObjects == Filter("all_objects", None, new_list(all_objects(store)))

\* the caller adds e to the container the last query returned: result.add(e) on a
\* collection, result.append(e) on a list
AddToResult(e) ==
    /\ filtered # <<>>
    /\ Len(filtered._store) < MaxResultLen
    /\ ret' = Returned("result.add", e.instance_id, <<e>>, <<>>)
    /\ IF filtered.is_self
       THEN /\ store' = add(store, e)
            /\ filtered' = [filtered EXCEPT !._store = add(store, e)]
       ELSE /\ filtered' = [filtered EXCEPT !._store =
                               IF filtered.kind = "list" THEN Append(filtered._store, e)
                               ELSE add(filtered._store, e)]
            /\ UNCHANGED store
    /\ UNCHANGED <<latest, addedIds, iterator, decVars, entVars, centerVars, cliVars,
                   sessVars>>

QueryNext ==
    \/ \E i \in Ids \cup {UnknownId} : LookupByInstanceId(i)
    \/ LookupRootFolder
    \/ \E n \in Names \cup {UnknownName} : FilterByName(n)
    \/ \E p \in Ids : FilterByParentId(p)
    \/ \E f \in Ids : FilterByParentFolder(f)
    \/ AllObjects
    \/ \E e \in AddedLater : AddToResult(e)

QuerySpec == QueryInit /\ [][QueryNext]_vars

\* C23: find_by_instance_id, find_by_name, find_by_parent_id, find_by_parent_folder,
\* root_folder and all_objects leave the collection they are called on as it was, and
\* adding to the container a filter returned leaves it as it was too: the container is
\* a new one.
C23_QueriesLeaveSource == [][store' = store]_vars

\* C23 witness: find_by_name returned a member of the collection, and the caller then
\* added to the result an entity the collection does not hold
C23_Witness ==
    /\ ret.op = "result.add"
    /\ filtered.kind = "collection"
    /\ Len(filtered._store) = 2
    /\ Len(store) = 1
    /\ store[1] \in Range(filtered._store)
    /\ \E i \in 1..2 : filtered._store[i].instance_id \notin {store[1].instance_id}

(***************************************************************************)
(* IterationSpec: a caller iterates a collection, item by item, while      *)
(* add() may be called on the collection between two items                 *)
(***************************************************************************)
\* what an iteration is: the dict size it was created for (over "collection") or the
\* list it walks (over "all_objects"), the position of the next item, and as history
\* the members at its start and the items yielded so far
Iteration(over, used, items, snapshot) ==
    [over |-> over, used |-> used, items |-> items, pos |-> 1, snapshot |-> snapshot,
     yielded |-> <<>>, state |-> "running"]

\* __iter__: self._store.values().__iter__(), an iterator over the live dict
__iter__(s) == Iteration("collection", Len(s), <<>>, s)

\* iter(self.all_objects()): an iterator over the list all_objects() built
iter_all_objects(s) == Iteration("all_objects", Len(s), all_objects(s), s)

\* next() on the iterator while the dict holds s: a dict iterator raises RuntimeError
\* when the dict's size is no longer the one it was created for, else it yields the
\* value now stored at its position
__next__(it, s) ==
    LET walked == IF it.over = "collection" THEN s ELSE it.items
    IN IF it.over = "collection" /\ it.used # Len(s)
       THEN [it EXCEPT !.state = "RuntimeError"]
       ELSE IF it.pos > Len(walked) THEN [it EXCEPT !.state = "StopIteration"]
       ELSE [it EXCEPT !.pos = it.pos + 1, !.yielded = Append(it.yielded, walked[it.pos])]

IterationMembers == [instance_id : Ids, name : Names, parent_id : {None}]

StartIteration ==
    /\ iterator' = __iter__(store)
    /\ UNCHANGED <<collVars, filtered, decVars, entVars, centerVars, cliVars, sessVars>>

StartIterationOverAllObjects ==
    /\ iterator' = iter_all_objects(store)
    /\ UNCHANGED <<collVars, filtered, decVars, entVars, centerVars, cliVars, sessVars>>

NextItem ==
    /\ iterator # <<>>
    /\ iterator.state = "running"
    /\ iterator' = __next__(iterator, store)
    /\ UNCHANGED <<collVars, filtered, decVars, entVars, centerVars, cliVars, sessVars>>

IterationNext ==
    \/ \E e \in IterationMembers : Add(e)
    \/ StartIteration
    \/ StartIterationOverAllObjects
    \/ NextItem

IterationSpec == CollectionInit /\ [][IterationNext]_vars

IsPrefix(s, t) == Len(s) <= Len(t) /\ \A i \in 1..Len(s) : s[i] = t[i]

\* C24: an iteration yields the members the collection had when the iteration started,
\* each once and in order, whatever is added to the collection meanwhile, and it does
\* not fail.
C24_IterationYieldsSnapshot ==
    iterator # <<>> =>
        /\ iterator.state # "RuntimeError"
        /\ IsPrefix(iterator.yielded, iterator.snapshot)
        /\ iterator.state = "StopIteration" => iterator.yielded = iterator.snapshot

\* C24 for an iteration over the list all_objects() returned
C24_AllObjectsIteration ==
    (iterator # <<>> /\ iterator.over = "all_objects") =>
        /\ iterator.state # "RuntimeError"
        /\ IsPrefix(iterator.yielded, iterator.snapshot)
        /\ iterator.state = "StopIteration" => iterator.yielded = iterator.snapshot

\* C24 for an iteration during which the collection was left alone
C24_UndisturbedIteration ==
    (iterator # <<>> /\ store = iterator.snapshot) =>
        /\ iterator.state # "RuntimeError"
        /\ IsPrefix(iterator.yielded, iterator.snapshot)
        /\ iterator.state = "StopIteration" => iterator.yielded = iterator.snapshot

C25_RaisesOnlyOnFailureReply ==
    (self.cls = "Volume" /\ call.gone_before /\ call.returned = <<>>) =>
        /\ call.raised # None
        /\ call.status_code # SuccessCode(call.op)
        /\ call.body # "json_object"
        /\ call.op \in {"map_to_server", "expand", "expand_to_size", "delete"}

InstanceIds(s) == {s[i].instance_id : i \in 1..Len(s)}

\* C26: answered 200, server_folder_list returns a folder collection holding one
\* decoded folder per distinct instanceId of the reply, on which root_folder() and
\* find_by_parent_id() give what they give on the result of volume_folder_list().
C26_ServerFoldersDecoded ==
    (/\ sc_call.op = "server_folder_list"
     /\ sc_call.gets[1].status_code = 200
     /\ sc_call.gets[1].json
     /\ \A i \in 1..Len(sc_call.gets[1].items) :
           RequiredKeys(sc_call.op) \subseteq DOMAIN sc_call.gets[1].items[i])
        => /\ sc_call.raised = None
           /\ sc_call.kind = "StorageObjectFolderCollection"
           /\ InstanceIds(sc_call.value) =
                 {sc_call.gets[1].items[i]["instanceId"] :
                     i \in 1..Len(sc_call.gets[1].items)}
           /\ Len(sc_call.value) = Cardinality(InstanceIds(sc_call.value))
           /\ LET folders == volume_folder_list(storage_center, sc_call.gets[1]).value
              IN /\ InstanceIds(root_folder(sc_call.value)) =
                       InstanceIds(root_folder(folders))
                 /\ \A p \in Ids :
                       InstanceIds(find_by_parent_id(sc_call.value, p)) =
                          InstanceIds(find_by_parent_id(folders, p))

\* what server_folder_list returns instead: the parsed body of the reply as it came,
\* or an empty dict when the status is not 200
C26_ReturnsParsedBody ==
    (sc_call.op = "server_folder_list" /\ sc_call.raised = None) =>
        IF sc_call.gets[1].status_code = 200
        THEN sc_call.kind = "list" /\ sc_call.value = sc_call.gets[1].items
        ELSE sc_call.kind = "dict" /\ sc_call.value = <<>>

(***************************************************************************)
(* UniqueNameSpec: volume_create and volume_folder_create of the client,   *)
(* called on a storage center with any arguments                           *)
(***************************************************************************)
CreateArguments ==
    [function : {"volume_create", "volume_folder_create"}, name : {"a", "new"},
     size : Sizes, unique_name : BOOLEAN, folder_id : {"", "2"}]

\* the function named by args is called, once in a run of the client; list_resp
\* answers the GET of the volume list, gets the GETs of the folder list, resp the
\* create POST
CallCreate(args, list_resp, gets, resp, outcome) ==
    /\ pc = "not started"
    /\ cli_args' = args
    /\ ran' = Executed(outcome, <<storage_center>>, list_resp, gets, resp)
    /\ pc' = "returned"
    /\ UNCHANGED <<session, exit_code, collVars, decVars, entVars, centerVars, heapVars,
                   sessVars>>

VolumeCreate(args, list_resp, gets, resp) ==
    /\ args.function = "volume_create"
    /\ CallCreate(args, list_resp, gets, resp,
                  volume_create(storage_center, args.name, args.size, args.unique_name,
                                args.folder_id, list_resp, gets, resp))

VolumeFolderCreate(args, list_resp, gets, resp) ==
    /\ args.function = "volume_folder_create"
    /\ CallCreate(args, list_resp, gets, resp,
                  volume_folder_create(storage_center, args.name, args.folder_id,
                                       args.unique_name, gets[1]))

UniqueNameNext ==
    \E args \in CreateArguments, list_resp \in CliVolumeReplies,
       folders \in CliFolderLists, resp \in CreateReplies :
        \E gets \in CliFolderReplies(folders) \X CliFolderReplies(folders) :
            \/ VolumeCreate(args, list_resp, gets, resp)
            \/ VolumeFolderCreate(args, list_resp, gets, resp)

UniqueNameSpec == CollectionInit /\ [][UniqueNameNext]_vars

\* the reply to the list fetch of the uniqueness test
ListFetched ==
    IF cli_args.function = "volume_create" THEN ran.list_resp ELSE ran.gets[1]

ListFetchSucceeded == ListFetched.status_code = 200 /\ ListFetched.json

NameTaken ==
    \E i \in 1..Len(ListFetched.items) :
        /\ "name" \in DOMAIN ListFetched.items[i]
        /\ ListFetched.items[i]["name"] = cli_args.name

CreatePosted == \E i \in 1..Len(ran.requests) : ran.requests[i].method = "POST"

\* C27: with unique_name set the create POST is issued only if the list fetch
\* succeeded and the list holds no member of the requested name; in every other case,
\* a failed list fetch included, the function returns FAILURE and issues no POST.
C27_UniqueNameGuard ==
    (pc = "returned" /\ cli_args.unique_name) =>
        /\ CreatePosted => ListFetchSucceeded /\ ~NameTaken
        /\ ~(ListFetchSucceeded /\ ~NameTaken) =>
              ran.rc = <<ReturnCode_FAILURE>> /\ ~CreatePosted

\* C27 for the calls whose list fetch succeeded
C27_AfterSuccessfulFetch ==
    (pc = "returned" /\ cli_args.unique_name /\ ListFetchSucceeded) =>
        /\ CreatePosted => ~NameTaken
        /\ (NameTaken /\ ran.raised = None) =>
              ran.rc = <<ReturnCode_FAILURE>> /\ ~CreatePosted

\* what happens after a failed list fetch: the uniqueness test passes
C27_FailedFetchPassesTest ==
    (/\ pc = "returned"
     /\ cli_args.function = "volume_create"
     /\ cli_args.unique_name
     /\ cli_args.folder_id # ""
     /\ ~ListFetchSucceeded) => CreatePosted

(***************************************************************************)
(* SessionSpec: one DsmSession and the calls of login(), storage_centers() *)
(* and logout() on it                                                      *)
(***************************************************************************)
MaxSessionCalls == 3

LOGIN_ENDPOINT == "/ApiConnection/Login"
LOGOUT_ENDPOINT == "/ApiConnection/Logout"
STORAGE_CENTER_LIST_ENDPOINT == <<"/ApiConnection/ApiConnection/", "/StorageCenterList">>

\* DsmSession.__init__: header is the value of API_VERSION_HEADER in session.headers
DsmSession(api_version) ==
    [_api_version |-> api_version, header |-> api_version, base_url |-> BASE_URL,
     conn_instance_id |-> None]

\* Python's truth value of a string or None
Truthy(value) == value \notin {None, ""}

\* @api_version.setter
api_version_setter(obj, value) == [obj EXCEPT !._api_version = value, !.header = value]

login_url(obj) == <<obj.base_url, LOGIN_ENDPOINT>>
logout_url(obj) == <<obj.base_url, LOGOUT_ENDPOINT>>

\* None (<<>>) unless conn_instance_id is true
sc_list_url(obj) ==
    IF Truthy(obj.conn_instance_id)
    THEN <<<<obj.base_url, STORAGE_CENTER_LIST_ENDPOINT[1], obj.conn_instance_id,
             STORAGE_CENTER_LIST_ENDPOINT[2]>>>>
    ELSE <<>>

\* the JSON object of a login reply: apiVersion and instanceId are given (<<v>>) or
\* left out (<<>>); None is JSON null
LoginDict(apiVersion, instanceId) ==
    LET given == [apiVersion |-> apiVersion, instanceId |-> instanceId]
        keys == {k \in DOMAIN given : Len(given[k]) = 1}
    IN [k \in keys |-> given[k][1]]

LoginBodies ==
    {[kind |-> "not_json"], [kind |-> "array"]}
        \cup {JsonObject(LoginDict(v, i)) :
                v \in {<<>>, <<"">>, <<"4.1">>}, i \in {<<>>, <<None>>, <<"7">>, <<"8">>}}

LoginReplies == [status_code : {200, 401}, body : LoginBodies]

login(obj, resp) ==
    LET sent == <<Request("POST", login_url(obj), None)>>
        after_version(d) ==
            IF "apiVersion" \in DOMAIN d /\ Truthy(d["apiVersion"])
            THEN api_version_setter(obj, d["apiVersion"]) ELSE obj
        on_object(d) ==
            IF "instanceId" \notin DOMAIN d
            THEN Outcome(after_version(d), sent, None, <<FALSE>>)
            ELSE Outcome([after_version(d) EXCEPT !.conn_instance_id = d["instanceId"]],
                         sent, None, <<TRUE>>)
    IN IF resp.status_code = 200
       THEN CASE resp.body.kind = "not_json" -> Outcome(obj, sent, "ValueError", <<>>)
              [] resp.body.kind = "array" -> Outcome(obj, sent, "AttributeError", <<>>)
              [] OTHER -> on_object(resp.body.obj)
       ELSE Outcome(obj, sent, None, <<FALSE>>)

logout(obj, resp) == Outcome(obj, <<Request("POST", logout_url(obj), None)>>, None, <<None>>)

StorageCenterRecord(i) ==
    [name |-> "sc", instanceId |-> i, scSerialNumber |-> i, hostOrIpAddress |-> "192.0.2.1"]

StorageCenterLists ==
    {<<>>, <<StorageCenterRecord("64914")>>,
     <<StorageCenterRecord("64914"), StorageCenterRecord("64915")>>,
     <<StorageCenterRecord("64914"), [name |-> "sc2", instanceId |-> "64915"]>>}

StorageCenterReplies ==
    [status_code : {200, 500}, json : {TRUE}, items : StorageCenterLists]
        \cup [status_code : {200, 500}, json : {FALSE}, items : {<<>>}]

\* the loop of storage_centers over resp.json(), from the i-th record
RECURSIVE storage_centers_loop(_, _, _, _)
storage_centers_loop(obj, items, i, built) ==
    IF i > Len(items) THEN [raised |-> None, value |-> built]
    ELSE LET d == items[i]
             missing == {key \in {"name", "instanceId", "scSerialNumber",
                                  "hostOrIpAddress"} : key \notin DOMAIN d}
         IN IF missing # {} THEN [raised |-> "KeyError", value |-> built]
            ELSE storage_centers_loop(obj, items, i + 1,
                     add(built, [cls |-> "StorageCenter", session |-> SESSION,
                                 base_url |-> obj.base_url, name |-> d["name"],
                                 instance_id |-> d["instanceId"],
                                 serial_num |-> d["scSerialNumber"],
                                 ip_addr |-> d["hostOrIpAddress"]]))

storage_centers(obj, resp) ==
    LET url == sc_list_url(obj)
        sent == <<Request("GET", url[1], None)>>
        fetched(items) ==
            LET done == storage_centers_loop(obj, items, 1, <<>>)
            IN IF done.raised # None THEN Outcome(obj, sent, done.raised, <<>>)
               ELSE Outcome(obj, sent, None, <<done.value>>)
    IN IF url = <<>> THEN Outcome(obj, <<>>, None, <<<<>>>>)
       ELSE IF resp.status_code # 200 THEN Outcome(obj, sent, None, <<<<>>>>)
       ELSE IF ~resp.json THEN Outcome(obj, sent, "ValueError", <<>>)
       ELSE fetched(resp.items)

LogoutReplies == [status_code : {204, 500}]

\* what a call on the session did, with the session before it; succeeded tells
\* whether some login() has returned True so far, n counts the calls
SessionCalled(method, resp, before, outcome, succeeded, n) ==
    [method |-> method, resp |-> resp, before |-> before, requests |-> outcome.requests,
     raised |-> outcome.raised, returned |-> outcome.returned, succeeded |-> succeeded,
     n |-> n]

SessionInit ==
    /\ dsm = DsmSession("3.0")
    /\ dsm_call = SessionCalled("__init__", [status_code |-> 0], DsmSession("3.0"),
                                Outcome(DsmSession("3.0"), <<>>, None, <<>>), FALSE, 0)
    /\ CollIdle
    /\ DecIdle
    /\ EntIdle
    /\ CenterIdle
    /\ CliIdle
    /\ HeapIdle

SessionCall(method, resp, outcome) ==
    /\ dsm_call.n < MaxSessionCalls
    /\ dsm' = outcome.self
    /\ dsm_call' = SessionCalled(method, resp, dsm, outcome,
                                 \/ dsm_call.succeeded
                                 \/ (method = "login" /\ outcome.returned = <<TRUE>>),
                                 dsm_call.n + 1)
    /\ UNCHANGED <<collVars, decVars, entVars, centerVars, cliVars, heapVars>>

SessionLogin(resp) == SessionCall("login", resp, login(dsm, resp))

SessionStorageCenters(resp) == SessionCall("storage_centers", resp, storage_centers(dsm, resp))

SessionLogout(resp) == SessionCall("logout", resp, logout(dsm, resp))

SessionNext ==
    \/ \E resp \in LoginReplies : SessionLogin(resp)
    \/ \E resp \in StorageCenterReplies : SessionStorageCenters(resp)
    \/ \E resp \in LogoutReplies : SessionLogout(resp)

SessionSpec == SessionInit /\ [][SessionNext]_vars

LoginReturned(value) == dsm_call.method = "login" /\ dsm_call.returned = <<value>>

CarriesInstanceId(resp) ==
    /\ resp.status_code = 200
    /\ resp.body.kind = "object"
    /\ "instanceId" \in DOMAIN resp.body.obj

\* C28: a login() that returns False leaves the API version, its header and
\* conn_instance_id as they were; login() returns True exactly when the status is
\* 200 and the body carries instanceId, and conn_instance_id is then that value.
C28_FailedLoginChangesNothing ==
    dsm_call.method = "login" =>
        /\ LoginReturned(FALSE) =>
              /\ dsm._api_version = dsm_call.before._api_version
              /\ dsm.header = dsm_call.before.header
              /\ dsm.conn_instance_id = dsm_call.before.conn_instance_id
        /\ LoginReturned(TRUE) <=> CarriesInstanceId(dsm_call.resp)
        /\ LoginReturned(TRUE) =>
              dsm.conn_instance_id = dsm_call.resp.body.obj["instanceId"]

\* the part of C28 about the result and conn_instance_id
C28_LoginResult ==
    dsm_call.method = "login" =>
        /\ LoginReturned(FALSE) => dsm.conn_instance_id = dsm_call.before.conn_instance_id
        /\ LoginReturned(TRUE) <=> CarriesInstanceId(dsm_call.resp)
        /\ LoginReturned(TRUE) =>
              dsm.conn_instance_id = dsm_call.resp.body.obj["instanceId"]

\* a failed login changes the API version exactly when the reply had status 200 and
\* reported a version
C28_VersionTakenBeforeInstanceId ==
    LoginReturned(FALSE) =>
        LET d == dsm_call.resp.body.obj
            reported == /\ dsm_call.resp.status_code = 200
                        /\ "apiVersion" \in DOMAIN d
                        /\ Truthy(d["apiVersion"])
        IN /\ dsm.header = dsm._api_version
           /\ IF reported THEN dsm._api_version = d["apiVersion"]
              ELSE dsm._api_version = dsm_call.before._api_version

\* C29: while no login() has returned True storage_centers() sends no request and
\* returns an empty collection; after a successful login it issues exactly one GET,
\* and returns an empty collection on every status but 200.
C29_RequestsOnlyAfterLogin ==
    dsm_call.method = "storage_centers" =>
        IF ~dsm_call.succeeded
        THEN dsm_call.requests = <<>> /\ dsm_call.returned = <<<<>>>>
        ELSE /\ Len(dsm_call.requests) = 1
             /\ dsm_call.requests[1].method = "GET"
             /\ dsm_call.resp.status_code # 200 => dsm_call.returned = <<<<>>>>

\* C29 with the connection id in place of the result of login()
C29_RequestsFollowConnectionId ==
    dsm_call.method = "storage_centers" =>
        /\ ~dsm_call.succeeded => dsm_call.requests = <<>> /\ dsm_call.returned = <<<<>>>>
        /\ IF Truthy(dsm_call.before.conn_instance_id)
           THEN /\ Len(dsm_call.requests) = 1
                /\ dsm_call.requests[1].method = "GET"
                /\ dsm_call.resp.status_code # 200 => dsm_call.returned = <<<<>>>>
           ELSE dsm_call.requests = <<>> /\ dsm_call.returned = <<<<>>>>

\* C30: a run whose login succeeded issues exactly one logout request, after the
\* last request of the command and before the process exits, whatever the command
\* returned; a run whose login failed issues no command request and no logout.
\* (logout is requested by exit_cli alone, the step from "exit_cli" to "exited".)
C30_LogoutOnEveryExit ==
    pc = "exited" =>
        IF session = "login failed"
        THEN ran.requests = <<>>
        ELSE session = "logged out"

\* C30 for the runs whose command returned
C30_LogoutWhenCommandReturns ==
    pc = "exited" =>
        IF session = "login failed"
        THEN ran.requests = <<>>
        ELSE ran.raised = None <=> session = "logged out"

\* logout is requested in the last step of a run, and at most once
C30_LogoutIsLastStep ==
    [][session' = "logged out" =>
          /\ session = "logged in"
          /\ pc = "exit_cli"
          /\ pc' = "exited"
          /\ ran' = ran]_vars

====
